---- MODULE Spec2Model ----
(***************************************************************************)
(* A model of the LifeOS conversation orchestration engine:                *)
(*   - agents/conversation_manager.py  ConversationManager (SQLite)        *)
(*   - agents/workflow_complete.py     CompleteLifeOSWorkflow (LangGraph)  *)
(*   - agents/workflow.py, tools.py    LifeOSWorkflow task pipeline        *)
(*   - modules/memory.py               MemoryStore / MemoryManager         *)
(*   - modules/conversation_flow.py    IntentClassifier                    *)
(*                                                                         *)
(* Text is a sequence of tokens.  A token stands for one word of the       *)
(* source's (Chinese) keyword tables, written here in pinyin; "nl" is the  *)
(* line break and "sp" a blank.  The empty string is the empty sequence.   *)
(* Confidences are held in hundredths (0.85 is 85).                        *)
(***************************************************************************)
EXTENDS Integers, Sequences, FiniteSets, TLC

-----------------------------------------------------------------------------
(* Bounds of the model *)

\* concurrent callers of run()
NumCallers == 2
\* run() calls started over a behaviour
MaxRuns == 2
\* last value of the wall clock (seconds)
MaxClock == 1
\* largest last_n_turns a direct get_conversation_history call passes
MaxLastN == 3
\* ConversationManager calls started over a behaviour of SpecConv
MaxCalls == 3

\* run loads the last 5 turns: get_conversation_history(session_id, last_n_turns=5)
HistoryTurns == 5

Callers == 1..NumCallers
Users == {"u1", "u2"}

\* A session id is a pair <<prefix, stamp>>: create_session builds
\* f"{user_id}_{now:%Y%m%d_%H%M%S}", a caller may pass any id of its own.
GivenSessions == {<<"s1", 0>>, <<"s2", 0>>}
\* session_id = None
NoSession == <<"none", 0>>

-----------------------------------------------------------------------------
(* Generic helpers *)

Max(S) == CHOOSE x \in S : \A y \in S : y <= x

Min(S) == CHOOSE x \in S : \A y \in S : x <= y

Min2(a, b) == IF a <= b THEN a ELSE b

Max2(a, b) == IF a >= b THEN a ELSE b

Range(s) == {s[i] : i \in 1..Len(s)}

\* Python s[:n]
Take(s, n) == SubSeq(s, 1, Min2(n, Len(s)))

\* Python reversed(s)
Reverse(s) == [i \in 1..Len(s) |-> s[Len(s) + 1 - i]]

RECURSIVE Flatten(_)
\* "".join(parts) for a sequence of texts
Flatten(ss) == IF ss = <<>> THEN <<>> ELSE Head(ss) \o Flatten(Tail(ss))

\* any(k in text for k in keywords)
ContainsAny(text, keywords) == \E i \in 1..Len(text) : text[i] \in keywords

-----------------------------------------------------------------------------
(* agents/conversation_manager.py: the two SQLite tables and their queries *)

\* A row of table conversations: add_turn's INSERT.  id is the AUTOINCREMENT
\* key; rows are never deleted, so the next id is the row count plus one.
\* m holds the message columns; extracted_data is stored with json.dumps and
\* read back with json.loads, which returns the dict of lists and strings
\* unchanged.
ConversationRow(conv, session_id, user_id, turn_number, m, at) ==
    [id |-> Cardinality(conv) + 1,
     session_id |-> session_id,
     user_id |-> user_id,
     turn_number |-> turn_number,
     user_message |-> m.user_message,
     assistant_message |-> m.assistant_message,
     intent |-> m.intent,
     intent_confidence |-> m.intent_confidence,
     extracted_data |-> m.extracted_data,
     created_at |-> at]

\* The rows of one session: WHERE session_id = ?
SessionTurns(conv, session_id) == {t \in conv : t.session_id = session_id}

\* Variant: the SELECT without its WHERE clause
SelectNextTurnAllSessions(conv, session_id) ==
    LET nums == {t.turn_number : t \in conv}
    IN  IF nums = {} THEN 1 ELSE Max(nums) + 1

\* SELECT COALESCE(MAX(turn_number), 0) + 1 FROM conversations WHERE session_id = ?
SelectNextTurn(conv, session_id) ==
    LET nums == {t.turn_number : t \in SessionTurns(conv, session_id)}
    IN  IF nums = {} THEN 1 ELSE Max(nums) + 1

\* Variant: table conversations without its UNIQUE constraint
NoUniqueConstraint(conv, row) == FALSE

\* UNIQUE(session_id, turn_number): does inserting row violate it?
UniqueViolation(conv, row) ==
    \E t \in conv : t.session_id = row.session_id /\ t.turn_number = row.turn_number

\* Variant: create_session written with INSERT OR REPLACE
InsertSessionOrReplace(sess, session_id, user_id, at) ==
    {r \in sess : r.session_id # session_id}
        \cup {[session_id |-> session_id, user_id |-> user_id,
               started_at |-> at, last_active_at |-> at, total_turns |-> 0]}

\* INSERT OR IGNORE INTO sessions (session_id, user_id): columns not named take
\* their defaults (started_at, last_active_at = CURRENT_TIMESTAMP, total_turns = 0)
InsertOrIgnoreSession(sess, session_id, user_id, at) ==
    IF \E r \in sess : r.session_id = session_id
    THEN sess
    ELSE sess \cup {[session_id |-> session_id, user_id |-> user_id,
                     started_at |-> at, last_active_at |-> at,
                     total_turns |-> 0]}

\* Variant: the statement without its total_turns column, which takes its
\* default then
ReplaceSessionDefaultTurns(sess, session_id, user_id, at, total_turns) ==
    {r \in sess : r.session_id # session_id}
        \cup {[session_id |-> session_id, user_id |-> user_id,
               started_at |-> at, last_active_at |-> at, total_turns |-> 0]}

\* INSERT OR REPLACE INTO sessions (session_id, user_id, last_active_at, total_turns):
\* the row with that primary key is deleted and a new one inserted, so started_at
\* takes its default again
InsertOrReplaceSession(sess, session_id, user_id, at, total_turns) ==
    {r \in sess : r.session_id # session_id}
        \cup {[session_id |-> session_id, user_id |-> user_id,
               started_at |-> at, last_active_at |-> at,
               total_turns |-> total_turns]}

RECURSIVE OrderByTurnDesc(_)
\* ORDER BY turn_number DESC
OrderByTurnDesc(rows) ==
    IF rows = {} THEN <<>>
    ELSE LET m == CHOOSE r \in rows : \A q \in rows : q.turn_number <= r.turn_number
         IN  <<m>> \o OrderByTurnDesc(rows \ {m})

\* The dict get_conversation_history builds from a row (session_id, user_id and
\* id are not selected)
HistoryEntry(row) ==
    [turn_number |-> row.turn_number,
     user_message |-> row.user_message,
     assistant_message |-> row.assistant_message,
     intent |-> row.intent,
     intent_confidence |-> row.intent_confidence,
     extracted_data |-> row.extracted_data,
     created_at |-> row.created_at]

\* Variant: the rows returned as selected, newest first
get_history_newest_first(conv, session_id, last_n_turns) ==
    LET rows == Take(OrderByTurnDesc(SessionTurns(conv, session_id)), last_n_turns)
    IN  [i \in 1..Len(rows) |-> HistoryEntry(rows[i])]

\* ConversationManager.get_conversation_history: ORDER BY turn_number DESC LIMIT ?,
\* then reversed(rows)
get_conversation_history(conv, session_id, last_n_turns) ==
    LET rows == Take(OrderByTurnDesc(SessionTurns(conv, session_id)), last_n_turns)
        rev == Reverse(rows)
    IN  [i \in 1..Len(rev) |-> HistoryEntry(rev[i])]

\* ConversationManager.create_session: the id it uses
create_session_id(user_id, session_id, at) ==
    IF session_id = NoSession THEN <<user_id, at>> ELSE session_id

-----------------------------------------------------------------------------
(* Text helpers *)

Whitespace == {"sp", "nl"}

\* str.lower(): "HI" and "A" are the upper-case words and letters of the
\* vocabulary; Chinese text has no case
Lower(text) ==
    [i \in 1..Len(text) |->
        IF text[i] = "HI" THEN "hi" ELSE IF text[i] = "A" THEN "a" ELSE text[i]]

RECURSIVE LStrip(_)
LStrip(text) ==
    IF text # <<>> /\ Head(text) \in Whitespace THEN LStrip(Tail(text)) ELSE text

\* str.strip()
Strip(text) == Reverse(LStrip(Reverse(LStrip(text))))

RECURSIVE Split(_, _)
\* str.split(sep): always at least one piece
Split(text, sep) ==
    IF \A i \in 1..Len(text) : text[i] # sep THEN <<text>>
    ELSE LET i == CHOOSE j \in 1..Len(text) :
                      text[j] = sep /\ \A k \in 1..(j - 1) : text[k] # sep
         IN  <<SubSeq(text, 1, i - 1)>> \o Split(SubSeq(text, i + 1, Len(text)), sep)

\* [l.strip() for l in user_input.split('\n') if l.strip()]
StrippedLines(text) ==
    LET pieces == Split(text, "nl")
        kept == SelectSeq(pieces, LAMBDA l : Strip(l) # <<>>)
    IN  [i \in 1..Len(kept) |-> Strip(kept[i])]

-----------------------------------------------------------------------------
(* agents/state.py and the LangGraph executor *)

\* AgentState fields declared Annotated[..., operator.add]: a node's value is
\* appended to the channel; every other field is overwritten
AppendFields == {"raw_tasks", "analyzed_tasks", "processing_steps", "errors"}

\* The executor's merge of a node's partial update into the state.  Keys of the
\* update that are no AgentState channel of the run (context_continuation,
\* priority_analysis) are dropped, as LangGraph drops them.
Merge(st, upd) ==
    [k \in DOMAIN st |->
        IF k \in DOMAIN upd
        THEN IF k \in AppendFields THEN st[k] \o upd[k] ELSE upd[k]
        ELSE st[k]]

\* "\n".join(parts)
JoinLines(parts) ==
    Flatten([i \in 1..Len(parts) |->
                IF i = 1 THEN parts[i] ELSE <<"nl">> \o parts[i]])

-----------------------------------------------------------------------------
(* agents/workflow_complete.py: CompleteLifeOSWorkflow *)

\* The keys of the conditional edge out of intent_recognition, and their nodes
RouteTable ==
    [task_management |-> "task_processing",
     emotion_support |-> "emotion_support",
     habit_tracking  |-> "habit_management",
     goal_setting    |-> "goal_planning",
     reflection      |-> "reflection_guide",
     casual_chat     |-> "casual_response"]

\* _route_by_intent: the selector returns the state's intent as it is
_route_by_intent(st) == st.intent

\* _should_personalize
_should_personalize(st) ==
    IF Len(st.analyzed_tasks) >= 2 THEN "personalize" ELSE "skip"

\* The keys of the conditional edge out of task_processing, and their nodes
PersonalizeTable ==
    [personalize |-> "personalization", skip |-> "output_generation"]

\* The generator: not configured (self.llm is None), a stub that raises on every
\* call, or a live service that answers one of `answers` or raises
Generate(mode, answers) ==
    CASE mode = "none"   -> {[kind |-> "none"]}
      [] mode = "raises" -> {[kind |-> "raise"]}
      [] OTHER           -> answers \cup {[kind |-> "raise"]}

\* Did the call give no usable answer (no generator, or invoke raised)?
NoAnswer(reply) == reply.kind \in {"none", "raise"}

HabitKeywords      == {"xiguan", "jianchi", "daka"}
GoalKeywords       == {"mubiao", "xiangyao", "jihua", "shixian", "xuexi"}
ReflectionKeywords == {"zongjie", "fansi", "huigu", "fupan"}
EmotionKeywords    == {"lei", "jiaolv", "yali", "bengkui", "pibei"}
TaskKeywords       == {"renwu", "yaozuo", "zhengli", "daiban", "anpai"}

\* _fallback_intent_detection
_fallback_intent_detection(text) ==
    LET text_lower == Lower(text)
    IN  IF ContainsAny(text_lower, HabitKeywords) THEN "habit_tracking"
        ELSE IF ContainsAny(text_lower, GoalKeywords) THEN "goal_setting"
        ELSE IF ContainsAny(text_lower, ReflectionKeywords) THEN "reflection"
        ELSE IF ContainsAny(text_lower, EmotionKeywords) THEN "emotion_support"
        ELSE IF ContainsAny(text_lower, TaskKeywords) THEN "task_management"
        ELSE "casual_chat"

\* What the generator may answer to the intent request: unparsable text (kind
\* "text": _parse_json_response returns {}), or a JSON object whose intent is a
\* routing key, another word, or absent, and whose confidence is absent, a
\* number in or out of [0,1], or not a number
LLMIntents == (DOMAIN RouteTable) \cup {"mixed", "unknown", "absent"}

LLMConfidences == {"absent", "0.95", "1.5", "high"}

IntentAnswers ==
    {[kind |-> "text"]}
        \cup {[kind |-> "json", intent |-> i, confidence |-> c] :
                 i \in LLMIntents, c \in LLMConfidences}

\* result.get("intent", "casual_chat")
AnswerIntent(reply) ==
    IF reply.kind = "text" \/ reply.intent = "absent" THEN "casual_chat"
    ELSE reply.intent

\* result.get("confidence", 0.7), in hundredths
AnswerConfidence(reply) ==
    IF reply.kind = "text" \/ reply.confidence = "absent" THEN 70
    ELSE IF reply.confidence = "0.95" THEN 95
    ELSE 150

\* f"{confidence:.2f}" raises ValueError for a confidence that is no number
FormatRaises(reply) == reply.kind = "json" /\ reply.confidence = "high"

\* _intent_recognition_node: the generator's answer when there is one and it
\* formats, the rule match otherwise
_intent_recognition_node(st, reply) ==
    IF ~NoAnswer(reply) /\ ~FormatRaises(reply)
    THEN [intent |-> AnswerIntent(reply),
          confidence |-> AnswerConfidence(reply),
          context_continuation |-> FALSE,
          processing_steps |-> <<"intent_llm">>]
    ELSE [intent |-> _fallback_intent_detection(st.user_input),
          confidence |-> 60,
          context_continuation |-> FALSE,
          processing_steps |-> <<"intent_rule_match">>]

\* Free text the generator may put in a string field
LLMTexts == {<<>>, <<"llm_text">>}

\* priority_order.get(t.get('priority', '').lower(), 4)
PriorityOrder(t) ==
    IF t.priority = "high" THEN 1
    ELSE IF t.priority = "medium" THEN 2
    ELSE IF t.priority = "low" THEN 3
    ELSE 4

RECURSIVE SortByPriority(_)
\* tasks.sort(key=...): list.sort is stable
SortByPriority(ts) ==
    IF Len(ts) <= 1 THEN ts
    ELSE LET front == SortByPriority(SubSeq(ts, 1, Len(ts) - 1))
             x == ts[Len(ts)]
             n == Cardinality({i \in 1..Len(front) :
                                  PriorityOrder(front[i]) <= PriorityOrder(x)})
         IN  SubSeq(front, 1, n) \o <<x>> \o SubSeq(front, n + 1, Len(front))

LLMTaskLists ==
    {<<>>,
     <<[title |-> <<"t1">>, priority |-> "low"]>>,
     <<[title |-> <<"t1">>, priority |-> "low"],
       [title |-> <<"t2">>, priority |-> "high"]>>}

LLMTextLists == {<<>>, << <<>> >>, << <<"llm_text">> >>}

\* What the generator may answer to the task request: unparsable text, JSON of
\* the wrong shape (a task that is no object: t.get raises), or the object asked
\* for
TaskAnswers ==
    {[kind |-> "text"], [kind |-> "malformed"]}
        \cup {[kind |-> "json", tasks |-> ts, suggestions |-> sg, urgent_count |-> u] :
                 ts \in LLMTaskLists, sg \in LLMTextLists, u \in {0, 1}}

\* The task node's lines for tasks[:5]: icon, title, priority text
TaskLines(tasks) ==
    [i \in 1..Len(Take(tasks, 5)) |-> <<"no", tasks[i].priority>> \o tasks[i].title]

\* _task_processing_node with a usable answer r (result = {} for unparsable text)
TaskFromAnswer(st, r) ==
    LET tasks == IF r.kind = "text" THEN <<>> ELSE SortByPriority(r.tasks)
        suggestions == IF r.kind = "text" THEN <<>> ELSE r.suggestions
        urgent_count == IF r.kind = "text" THEN 0 ELSE r.urgent_count
        fallback_suggestions ==
            IF suggestions # <<>> THEN suggestions ELSE << <<"no_task_detected">> >>
        output_parts ==
            << <<"task_summary_header", "nl">> >> \o TaskLines(tasks)
                \o (IF urgent_count > 0 THEN << <<"nl", "urgent_note">> >> ELSE <<>>)
                \o (IF suggestions # <<>>
                    THEN << <<"nl", "suggestions_header">> >>
                            \o [i \in 1..Len(Take(suggestions, 3)) |->
                                   <<"bullet">> \o suggestions[i]]
                    ELSE <<>>)
    IN  IF Len(tasks) = 0
        THEN [analyzed_tasks |-> <<>>,
              final_output |-> JoinLines(fallback_suggestions),
              processing_steps |-> <<"no_task_guidance">>]
        ELSE [analyzed_tasks |-> tasks,
              priority_analysis |-> urgent_count,
              final_output |-> JoinLines(output_parts),
              processing_steps |-> <<"task_extraction", "priority_analysis",
                                     "execution_advice">>]

\* _task_processing_node, degraded: one task per non-blank line of the input
TaskFallback(st) ==
    LET lines == Take(StrippedLines(st.user_input), 5)
        task_list == JoinLines([i \in 1..Len(lines) |-> <<"no">> \o lines[i]])
    IN  [analyzed_tasks |-> [i \in 1..Len(lines) |->
                                [title |-> lines[i], priority |-> "medium"]],
         final_output |-> <<"task_list_header", "nl", "nl">> \o task_list
                              \o <<"nl", "nl", "task_list_footer">>,
         processing_steps |-> <<"simple_task_split">>]

\* _task_processing_node
_task_processing_node(st, reply) ==
    IF NoAnswer(reply) \/ reply.kind = "malformed"
    THEN TaskFallback(st)
    ELSE TaskFromAnswer(st, reply)

\* What the generator may answer to the personalization request
PersonalizationAnswers ==
    {[kind |-> "text"], [kind |-> "malformed"]}
        \cup {[kind |-> "json", personalized_suggestions |-> sg, adapted_timeline |-> tl] :
                 sg \in LLMTextLists, tl \in LLMTexts}

\* _personalization_node: {} without a generator or when anything raises;
\* otherwise the output so far with the generator's suggestions added, and the
\* steps so far plus one
_personalization_node(st, reply) ==
    IF NoAnswer(reply) \/ reply.kind = "malformed"
    THEN <<>>
    ELSE LET sg == IF reply.kind = "text" THEN <<>> ELSE reply.personalized_suggestions
             tl == IF reply.kind = "text" THEN <<>> ELSE reply.adapted_timeline
             enhanced_output ==
                 st.final_output
                     \o (IF sg # <<>>
                         THEN <<"nl", "nl", "personal_header">>
                                 \o Flatten([i \in 1..Len(Take(sg, 3)) |->
                                                <<"nl", "bullet">> \o sg[i]])
                         ELSE <<>>)
                     \o (IF tl # <<>>
                         THEN <<"nl", "nl", "timeline_header", "nl">> \o tl
                         ELSE <<>>)
         IN  [final_output |-> enhanced_output,
              processing_steps |-> st.processing_steps \o <<"personalized">>]

\* What the generator may answer to the emotion request: empathy_response is
\* absent (the default sentence is used), empty, or text
EmotionAnswers ==
    {[kind |-> "text"], [kind |-> "malformed"]}
        \cup {[kind |-> "json", empathy_response |-> e, suggestions |-> sg] :
                 e \in {"absent", "empty", "given"}, sg \in LLMTextLists}

\* _emotion_support_node
_emotion_support_node(st, reply) ==
    IF NoAnswer(reply) \/ reply.kind = "malformed"
    THEN [final_output |-> <<"fallback_emotion_reply">>,
          processing_steps |-> <<"simple_emotion_reply">>]
    ELSE LET empathy == IF reply.kind = "text" \/ reply.empathy_response = "absent"
                        THEN <<"default_empathy">>
                        ELSE IF reply.empathy_response = "empty" THEN <<>>
                        ELSE <<"llm_text">>
             sg == IF reply.kind = "text" THEN <<>> ELSE reply.suggestions
             output_parts ==
                 <<empathy>>
                     \o (IF sg # <<>>
                         THEN << <<"nl", "ideas_header">> >>
                                 \o [i \in 1..Len(Take(sg, 2)) |-> <<"bullet">> \o sg[i]]
                         ELSE <<>>)
         IN  [final_output |-> JoinLines(output_parts),
              processing_steps |-> <<"emotion_support">>]

\* What the generator may answer to the habit request: habit_plan absent, an
\* object, or no object (habit_plan.get raises)
HabitAnswers ==
    {[kind |-> "text"], [kind |-> "malformed"]}
        \cup {[kind |-> "json", motivation_message |-> m] : m \in LLMTexts}

\* _habit_management_node
_habit_management_node(st, reply) ==
    IF NoAnswer(reply) \/ reply.kind = "malformed"
    THEN [final_output |-> <<"fallback_habit_advice">>,
          processing_steps |-> <<"simple_habit_advice">>]
    ELSE LET m == IF reply.kind = "text" THEN <<>> ELSE reply.motivation_message
             output_parts ==
                 << <<"habit_plan_header", "nl">>, <<"habit_name">>, <<"frequency">>,
                    <<"trigger">>, <<"reward">>, <<"start_small">>, <<"tracking">> >>
                     \o (IF m # <<>> THEN << <<"nl", "cheer">> \o m >> ELSE <<>>)
         IN  [final_output |-> JoinLines(output_parts),
              processing_steps |-> <<"habit_plan_design">>]

\* What the generator may answer to the goal request: a continuation ("step N")
\* or a new goal plan
GoalAnswers ==
    {[kind |-> "text"], [kind |-> "malformed"]}
        \cup {[kind |-> "json", is_continuation |-> b, details |-> d] :
                 b \in BOOLEAN, d \in LLMTexts}

\* _goal_planning_node
_goal_planning_node(st, reply) ==
    IF NoAnswer(reply) \/ reply.kind = "malformed"
    THEN [final_output |-> <<"fallback_goal_advice">>,
          processing_steps |-> <<"simple_goal_advice">>]
    ELSE IF reply.kind = "json" /\ reply.is_continuation
    THEN [final_output |->
              JoinLines(<< <<"step_n", "nl">>, <<"action", "nl">> >>
                          \o (IF reply.details # <<>>
                              THEN << <<"details">> \o reply.details \o <<"nl">> >>
                              ELSE <<>>)),
          processing_steps |-> <<"step_guidance">>]
    ELSE [final_output |->
              JoinLines(<< <<"goal">>, <<"nl", "milestones_header">>,
                           <<"nl", "first_step_header">>, <<"start_acting">> >>),
          processing_steps |-> <<"goal_plan">>]

\* What the generator may answer to the reflection request
ReflectionAnswers ==
    {[kind |-> "text"], [kind |-> "malformed"]}
        \cup {[kind |-> "json", summary |-> sm, achievements |-> a] :
                 sm \in LLMTexts, a \in LLMTextLists}

\* _reflection_guide_node
_reflection_guide_node(st, reply) ==
    IF NoAnswer(reply) \/ reply.kind = "malformed"
    THEN [final_output |-> <<"fallback_reflection_guide">>,
          processing_steps |-> <<"simple_reflection_guide">>]
    ELSE LET sm == IF reply.kind = "text" THEN <<>> ELSE reply.summary
             a == IF reply.kind = "text" THEN <<>> ELSE reply.achievements
             output_parts ==
                 (IF sm # <<>> THEN << <<"summary_header", "nl">> \o sm \o <<"nl">> >>
                  ELSE <<>>)
                     \o (IF a # <<>>
                         THEN << <<"achievements_header">> >>
                                 \o [i \in 1..Len(a) |-> <<"bullet">> \o a[i]]
                                 \o << <<>> >>
                         ELSE <<>>)
         IN  [final_output |-> JoinLines(output_parts),
              processing_steps |-> <<"reflection_4d">>]

GreetingWords == {"nihao", "hi", "hello", "hai"}
FeatureWords  == {"gongneng", "nengzuo", "keyizuo", "bangwo"}
ThanksWords   == {"xiexie", "ganxie", "thanks", "thx"}
ByeWords      == {"zaijian", "bye", "baibai"}

\* What the generator may answer to the chat request: its content is used as it
\* is, stripped; content that is no string makes .strip() raise
CasualAnswers ==
    {[kind |-> "malformed"]}
        \cup {[kind |-> "text", content |-> c] :
                 c \in {<<>>, <<"sp">>, <<"sp", "llm_text", "nl">>}}

\* _casual_response_node
_casual_response_node(st, reply) ==
    IF NoAnswer(reply) \/ reply.kind = "malformed"
    THEN LET user_input_lower == Lower(st.user_input)
             output ==
                 IF ContainsAny(user_input_lower, GreetingWords) THEN <<"greeting_reply">>
                 ELSE IF ContainsAny(user_input_lower, FeatureWords) THEN <<"features_reply">>
                 ELSE IF ContainsAny(user_input_lower, ThanksWords) THEN <<"thanks_reply">>
                 ELSE IF ContainsAny(user_input_lower, ByeWords) THEN <<"bye_reply">>
                 ELSE <<"here_for_you_reply">>
         IN  [final_output |-> output, processing_steps |-> <<"friendly_reply">>]
    ELSE [final_output |-> Strip(reply.content),
          processing_steps |-> <<"ai_friendly_reply">>]

\* Variant: the node reads a key no node writes and has no default
output_from_unset_key(st) == [final_output |-> <<>>]

\* _output_generation_node: an output already produced is kept; otherwise a
\* default by intent
_output_generation_node(st) ==
    IF st.final_output # <<>>
    THEN [final_output |-> st.final_output]
    ELSE IF st.intent = "task_management"
    THEN IF st.analyzed_tasks # <<>>
         THEN [final_output |->
                  <<"task_summary_header", "nl", "nl">>
                      \o Flatten([i \in 1..Len(Take(st.analyzed_tasks, 5)) |->
                                     <<"no">> \o st.analyzed_tasks[i].title \o <<"nl">>])
                      \o <<"nl", "task_list_footer">>]
         ELSE [final_output |-> <<"lets_start_sorting_tasks">>]
    ELSE [final_output |-> <<"ok_understood">>]

-----------------------------------------------------------------------------
(* State *)

VARIABLES
    conversations,  \* table conversations: a set of rows
    sessions,       \* table sessions: a set of rows, session_id the key
    req,            \* per caller: where its call stands, its arguments and state
    now,            \* the wall clock, in seconds
    runs,           \* calls started so far; a call's number is its submission order
    llm,            \* the generator the workflow was built with
    log,            \* history: the add_turn calls completed, in completion order
    overlap,        \* history: sessions on which two add_turn calls overlapped
    storage         \* the database file: "up", or "down" (sqlite3 calls raise)

VARIABLES
    memories,       \* table memories: a set of rows
    today,          \* the date, in days
    mem_log         \* history: the MemoryManager calls made, with what they returned

VARIABLES
    classify_input, \* the message given to IntentClassifier.classify
    classification  \* what classify returned

VARIABLES
    wf,             \* the state of a LifeOSWorkflow run
    wf_pc,          \* the node the run is at
    wf_path,        \* history: the nodes the run has executed, in order
    wf_llm          \* the generator the LifeOSWorkflow was built with

VARIABLES
    decompose_args, \* the arguments given to ActionDecompositionTool._run
    decomposition   \* what it returned

VARIABLES
    na_result,      \* the NextActionResult given to adjust_suggestions_by_preferences
    na_prefs,       \* the UserPreferences given to it
    na_pc           \* "unused", "given", "returned" or "raised"

VARIABLES
    conversation_states, \* LifeOSRealAssistant.conversation_states: per user
    chat_log             \* history: the chat calls made, with what they returned

VARIABLES
    graph_db,       \* app/database.py: the tables LifeOSGraph reads and writes
    graph           \* a LifeOSGraph.run call: where it stands, its state and result

convVars == <<conversations, sessions, req, now, runs, llm, log, overlap, storage>>
memVars  == <<memories, today, mem_log>>
flowVars == <<classify_input, classification>>
wfVars   == <<wf, wf_pc, wf_path, wf_llm>>
toolVars == <<decompose_args, decomposition>>
modVars  == <<na_result, na_prefs, na_pc, conversation_states, chat_log, graph_db, graph>>

vars == <<convVars, memVars, flowVars, wfVars, toolVars, modVars>>

\* Python None
None == [none |-> TRUE]

\* The components a specification does not exercise stay as constructed
MemUnused  == memories = {} /\ today = 0 /\ mem_log = <<>>
FlowUnused == classify_input = <<>> /\ classification = None
WfUnused   == wf = None /\ wf_pc = "unused" /\ wf_path = <<>> /\ wf_llm = "none"
ToolUnused == decompose_args = None /\ decomposition = None
NextActionUnused == na_result = None /\ na_prefs = None /\ na_pc = "unused"
ChatUnused == conversation_states = <<>> /\ chat_log = <<>>
GraphUnused == graph_db = None /\ graph = None
ModUnused  == NextActionUnused /\ ChatUnused /\ GraphUnused

\* run's initial_state.  context_continuation and priority_analysis are no
\* AgentState channels: the executor never holds them.
InitialState(user_input, user_id, session_id, history, at) ==
    [user_input |-> user_input,
     user_id |-> user_id,
     session_id |-> session_id,
     conversation_history |-> history,
     intent |-> "",
     confidence |-> 0,
     analyzed_tasks |-> <<>>,
     processing_steps |-> <<>>,
     final_output |-> <<>>,
     timestamp |-> at]

NoState == InitialState(<<>>, "", NoSession, <<>>, 0)

NoMessage ==
    [user_message |-> <<>>, assistant_message |-> <<>>, intent |-> "",
     intent_confidence |-> 0, extracted_data |-> <<>>]

\* A caller that has not called yet.  given, reply_kind and key are history:
\* the session_id argument of the call, the kind of answer the generator gave to
\* the intent request of the caller's run, and the value the selector of the
\* first conditional edge returned.
Idle ==
    [pc |-> "idle", op |-> "", seq |-> 0, user_id |-> "", session_id |-> NoSession,
     initial_state |-> NoState, state |-> NoState, path |-> <<>>,
     message |-> NoMessage, turn_number |-> 0, error |-> "",
     last_n_turns |-> 0, history |-> <<>>, given |-> NoSession,
     reply_kind |-> "", key |-> ""]

\* May caller c start a call?
Free(c) == req[c].pc \in {"idle", "done", "raised"}

\* The messages callers send: one per rule-matched intent, a task list of two
\* lines, an upper-case greeting, blank and empty input
Texts ==
    {<<"daka">>, <<"xuexi">>, <<"fupan">>, <<"bengkui">>, <<"renwu">>,
     <<"renwu", "nl", "sp", "zhengli", "nl">>, <<"bengkui", "renwu">>,
     <<"HI">>, <<"xiexie">>, <<"en">>, <<"sp">>, <<>>}

\* The messages of the concurrent specification
FewTexts == {<<"renwu", "nl", "sp", "zhengli", "nl">>, <<"HI">>}

-----------------------------------------------------------------------------
(* CompleteLifeOSWorkflow.run, one action per step *)

\* run, up to the invoke: with a session_id the last turns are loaded, without
\* one a session is created; then initial_state is built.  Neither call is inside
\* a try: when the database cannot be opened its sqlite3.OperationalError
\* leaves run.
RunStart(c, user_id, session_id, user_input) ==
    /\ Free(c)
    /\ runs < MaxRuns
    /\ LET sid == create_session_id(user_id, session_id, now)
           history == IF session_id # NoSession
                      THEN get_conversation_history(conversations, session_id, HistoryTurns)
                      ELSE <<>>
           st == InitialState(user_input, user_id, sid, history, now)
       IN  IF storage = "down"
           THEN /\ sessions' = sessions
                /\ req' = [req EXCEPT ![c] =
                             [Idle EXCEPT !.pc = "raised", !.op = "run",
                                          !.seq = runs + 1, !.user_id = user_id,
                                          !.session_id = session_id,
                                          !.given = session_id,
                                          !.error = "OperationalError"]]
           ELSE /\ sessions' = IF session_id = NoSession
                               THEN InsertOrIgnoreSession(sessions, sid, user_id, now)
                               ELSE sessions
                /\ req' = [req EXCEPT ![c] =
                             [Idle EXCEPT !.pc = "intent_recognition", !.op = "run",
                                          !.seq = runs + 1, !.user_id = user_id,
                                          !.session_id = sid, !.given = session_id,
                                          !.initial_state = st, !.state = st]]
    /\ runs' = runs + 1
    /\ UNCHANGED <<memVars, flowVars, wfVars, toolVars, modVars>>
    /\ UNCHANGED <<conversations, now, llm, storage, log, overlap>>

\* The executor runs node: its update is merged and the next node chosen
Advance(c, node, upd, next) ==
    /\ req' = [req EXCEPT ![c].state = Merge(@, upd),
                          ![c].path = Append(@, node),
                          ![c].pc = next]
    /\ UNCHANGED <<memVars, flowVars, wfVars, toolVars, modVars>>
    /\ UNCHANGED <<conversations, sessions, now, runs, llm, storage, log, overlap>>

\* run's except block: the result is initial_state with the apology
InvokeFailed(initial_state) ==
    [initial_state EXCEPT !.final_output = <<"apology">>,
                          !.processing_steps = <<"error">>]

\* Node intent_recognition and its conditional edge.  A selector value that is
\* no key of the edge's mapping makes the executor raise, which run catches.
IntentRecognition(c) ==
    /\ req[c].pc = "intent_recognition"
    /\ \E reply \in Generate(llm, IntentAnswers) :
          LET st1 == Merge(req[c].state, _intent_recognition_node(req[c].state, reply))
              key == _route_by_intent(st1)
          IN  req' = [req EXCEPT
                        ![c].state = IF key \in DOMAIN RouteTable
                                     THEN st1 ELSE InvokeFailed(req[c].initial_state),
                        ![c].path = Append(@, "intent_recognition"),
                        ![c].pc = IF key \in DOMAIN RouteTable
                                  THEN RouteTable[key] ELSE "add_turn",
                        ![c].reply_kind = reply.kind,
                        ![c].key = key]
    /\ UNCHANGED <<memVars, flowVars, wfVars, toolVars, modVars>>
    /\ UNCHANGED <<conversations, sessions, now, runs, llm, storage, log, overlap>>

TaskProcessing(c) ==
    /\ req[c].pc = "task_processing"
    /\ \E reply \in Generate(llm, TaskAnswers) :
          LET upd == _task_processing_node(req[c].state, reply)
          IN  Advance(c, "task_processing", upd,
                      PersonalizeTable[_should_personalize(Merge(req[c].state, upd))])

Personalization(c) ==
    /\ req[c].pc = "personalization"
    /\ \E reply \in Generate(llm, PersonalizationAnswers) :
          Advance(c, "personalization", _personalization_node(req[c].state, reply),
                  "output_generation")

EmotionSupport(c) ==
    /\ req[c].pc = "emotion_support"
    /\ \E reply \in Generate(llm, EmotionAnswers) :
          Advance(c, "emotion_support", _emotion_support_node(req[c].state, reply),
                  "output_generation")

HabitManagement(c) ==
    /\ req[c].pc = "habit_management"
    /\ \E reply \in Generate(llm, HabitAnswers) :
          Advance(c, "habit_management", _habit_management_node(req[c].state, reply),
                  "output_generation")

GoalPlanning(c) ==
    /\ req[c].pc = "goal_planning"
    /\ \E reply \in Generate(llm, GoalAnswers) :
          Advance(c, "goal_planning", _goal_planning_node(req[c].state, reply),
                  "output_generation")

ReflectionGuide(c) ==
    /\ req[c].pc = "reflection_guide"
    /\ \E reply \in Generate(llm, ReflectionAnswers) :
          Advance(c, "reflection_guide", _reflection_guide_node(req[c].state, reply),
                  "output_generation")

CasualResponse(c) ==
    /\ req[c].pc = "casual_response"
    /\ \E reply \in Generate(llm, CasualAnswers) :
          Advance(c, "casual_response", _casual_response_node(req[c].state, reply),
                  "output_generation")

\* Node output_generation, then END: invoke returns the state
OutputGeneration(c) ==
    /\ req[c].pc = "output_generation"
    /\ Advance(c, "output_generation", _output_generation_node(req[c].state), "add_turn")

\* The arguments run passes to add_turn.  priority_analysis is no channel of
\* the state, so result.get("priority_analysis", {}) is the empty dict.
TurnMessage(result) ==
    [user_message |-> result.user_input,
     assistant_message |-> result.final_output,
     intent |-> result.intent,
     intent_confidence |-> result.confidence,
     extracted_data |-> [tasks |-> result.analyzed_tasks,
                         steps |-> result.processing_steps,
                         priority_analysis |-> <<>>]]

\* add_turn, first statement: the SELECT of the next turn number.  The read
\* transaction ends with it; nothing is locked until the INSERT.
BeginAddTurn(c, base, session_id, user_id, m) ==
    /\ req' = [req EXCEPT ![c] =
                 [base EXCEPT !.pc = "add_turn_insert", !.session_id = session_id,
                              !.user_id = user_id, !.message = m,
                              !.turn_number = SelectNextTurn(conversations, session_id)]]
    /\ overlap' = IF \E d \in Callers \ {c} :
                        req[d].pc = "add_turn_insert" /\ req[d].session_id = session_id
                  THEN overlap \cup {session_id} ELSE overlap

\* run, after the invoke: add_turn is called with the result, inside a try.
\* When the database cannot be opened the exception is caught and run returns
\* its result.
AddTurnSelect(c) ==
    /\ req[c].pc = "add_turn"
    /\ IF storage = "down"
       THEN /\ req' = [req EXCEPT ![c].pc = "done", ![c].error = "OperationalError"]
            /\ overlap' = overlap
       ELSE BeginAddTurn(c, req[c], req[c].session_id, req[c].user_id,
                         TurnMessage(req[c].state))
    /\ UNCHANGED <<memVars, flowVars, wfVars, toolVars, modVars>>
    /\ UNCHANGED <<conversations, sessions, now, runs, llm, storage, log>>

\* add_turn, the write transaction: INSERT INTO conversations, INSERT OR REPLACE
\* INTO sessions, commit.  The INSERT raises sqlite3.IntegrityError when the
\* (session_id, turn_number) read earlier has been taken meanwhile; nothing is
\* written then, nor when the database has become unavailable.  run catches the
\* exception and returns its result all the same.
AddTurnInsert(c) ==
    /\ req[c].pc = "add_turn_insert"
    /\ LET r == req[c]
           row == ConversationRow(conversations, r.session_id, r.user_id,
                                  r.turn_number, r.message, now)
           ok == storage = "up" /\ ~UniqueViolation(conversations, row)
       IN  /\ conversations' = IF ok THEN conversations \cup {row} ELSE conversations
           /\ sessions' = IF ok
                          THEN InsertOrReplaceSession(sessions, r.session_id, r.user_id,
                                                      now, r.turn_number)
                          ELSE sessions
           /\ req' = [req EXCEPT ![c].pc = "done",
                                 ![c].error = IF ok THEN ""
                                              ELSE IF storage = "down"
                                              THEN "OperationalError"
                                              ELSE "IntegrityError"]
           /\ log' = Append(log, [seq |-> r.seq, session_id |-> r.session_id,
                                  turn_number |-> r.turn_number, ok |-> ok])
    /\ UNCHANGED <<memVars, flowVars, wfVars, toolVars, modVars>>
    /\ UNCHANGED <<now, runs, llm, storage, overlap>>

\* The database file becomes unavailable: from now on sqlite3.connect raises
Outage ==
    /\ storage = "up"
    /\ storage' = "down"
    /\ UNCHANGED <<memVars, flowVars, wfVars, toolVars, modVars>>
    /\ UNCHANGED <<conversations, sessions, req, now, runs, llm, log, overlap>>

\* A second passes
Tick ==
    /\ now < MaxClock
    /\ now' = now + 1
    /\ UNCHANGED <<memVars, flowVars, wfVars, toolVars, modVars>>
    /\ UNCHANGED <<conversations, sessions, req, runs, llm, storage, log, overlap>>

-----------------------------------------------------------------------------
(* ConversationManager called directly *)

\* The turns direct callers store
ApiMessages ==
    {[user_message |-> <<"HI">>, assistant_message |-> <<"greeting_reply">>,
      intent |-> "casual_chat", intent_confidence |-> 60,
      extracted_data |-> [tasks |-> <<>>, steps |-> <<"friendly_reply">>]]}

\* The session ids a caller can know: its own, and those create_session returned
KnownSessions == GivenSessions \cup {r.session_id : r \in sessions}

\* ConversationManager.create_session
CallCreateSession(c, user_id, session_id) ==
    /\ Free(c)
    /\ runs < MaxCalls
    /\ LET sid == create_session_id(user_id, session_id, now)
       IN  /\ sessions' = InsertOrIgnoreSession(sessions, sid, user_id, now)
           /\ req' = [req EXCEPT ![c] =
                        [Idle EXCEPT !.pc = "done", !.op = "create_session",
                                     !.seq = runs + 1, !.user_id = user_id,
                                     !.session_id = sid, !.given = session_id]]
    /\ runs' = runs + 1
    /\ UNCHANGED <<memVars, flowVars, wfVars, toolVars, modVars>>
    /\ UNCHANGED <<conversations, now, llm, storage, log, overlap>>

\* ConversationManager.add_turn, called: its SELECT
CallAddTurn(c, session_id, user_id, m) ==
    /\ Free(c)
    /\ runs < MaxCalls
    /\ BeginAddTurn(c, [Idle EXCEPT !.op = "add_turn", !.seq = runs + 1],
                    session_id, user_id, m)
    /\ runs' = runs + 1
    /\ UNCHANGED <<memVars, flowVars, wfVars, toolVars, modVars>>
    /\ UNCHANGED <<conversations, sessions, now, llm, storage, log>>

\* ConversationManager.get_conversation_history
CallGetHistory(c, session_id, last_n_turns) ==
    /\ Free(c)
    /\ runs < MaxCalls
    /\ req' = [req EXCEPT ![c] =
                 [Idle EXCEPT !.pc = "done", !.op = "get_conversation_history",
                              !.seq = runs + 1, !.session_id = session_id,
                              !.last_n_turns = last_n_turns,
                              !.history = get_conversation_history(
                                              conversations, session_id, last_n_turns)]]
    /\ runs' = runs + 1
    /\ UNCHANGED <<memVars, flowVars, wfVars, toolVars, modVars>>
    /\ UNCHANGED <<conversations, sessions, now, llm, storage, log, overlap>>

-----------------------------------------------------------------------------
(* Specifications *)

InitStore ==
    /\ conversations = {}
    /\ sessions = {}
    /\ req = [c \in Callers |-> Idle]
    /\ now = 0
    /\ runs = 0
    /\ log = <<>>
    /\ overlap = {}
    /\ storage = "up"
    /\ MemUnused /\ FlowUnused /\ WfUnused /\ ToolUnused /\ ModUnused

\* Concurrent runs of a workflow built without a generator (the factory's mock
\* mode) or with one that always raises
Init == InitStore /\ llm \in {"none", "raises"}

Next ==
    \/ \E c \in Callers, u \in Users, s \in KnownSessions \cup {NoSession},
          text \in FewTexts : RunStart(c, u, s, text)
    \/ \E c \in Callers : IntentRecognition(c)
    \/ \E c \in Callers : TaskProcessing(c)
    \/ \E c \in Callers : Personalization(c)
    \/ \E c \in Callers : CasualResponse(c)
    \/ \E c \in Callers : OutputGeneration(c)
    \/ \E c \in Callers : AddTurnSelect(c)
    \/ \E c \in Callers : AddTurnInsert(c)
    \/ Tick

Spec == Init /\ [][Next]_vars

\* One run on a fresh database, under every generator and every message
InitPipe == InitStore /\ llm \in {"none", "raises", "live"}

NextPipe ==
    \/ \E u \in Users, s \in GivenSessions \cup {NoSession}, text \in Texts :
          runs = 0 /\ RunStart(1, u, s, text)
    \/ IntentRecognition(1)
    \/ TaskProcessing(1)
    \/ Personalization(1)
    \/ EmotionSupport(1)
    \/ HabitManagement(1)
    \/ GoalPlanning(1)
    \/ ReflectionGuide(1)
    \/ CasualResponse(1)
    \/ OutputGeneration(1)
    \/ AddTurnSelect(1)
    \/ AddTurnInsert(1)
    \/ Tick

SpecPipe == InitPipe /\ [][NextPipe]_vars

\* One run, without a generator, on a database that may become unavailable at
\* any moment after the workflow was built
InitDown == InitStore /\ llm = "none"

NextDown == NextPipe \/ Outage

SpecDown == InitDown /\ [][NextDown]_vars

\* Concurrent direct calls of the ConversationManager within one second:
\* sessions are created without an id, turns are appended for user u1 to any
\* session known, so also to one that u2 created
InitConv == InitStore /\ llm = "none"

NextConv ==
    \/ \E c \in Callers, u \in Users : CallCreateSession(c, u, NoSession)
    \/ \E c \in Callers, s \in KnownSessions, m \in ApiMessages :
          CallAddTurn(c, s, "u1", m)
    \/ \E c \in Callers : AddTurnInsert(c)
    \/ \E c \in Callers, s \in KnownSessions, n \in 1..MaxLastN :
          CallGetHistory(c, s, n)

SpecConv == InitConv /\ [][NextConv]_vars

\* Direct calls of the ConversationManager by one caller, over several seconds:
\* sessions are created with or without an id, by either user, and turns are
\* appended by either user to any session known
NextSess ==
    \/ \E u \in Users, s \in KnownSessions \cup {NoSession} : CallCreateSession(1, u, s)
    \/ \E s \in KnownSessions, u \in Users, m \in ApiMessages : CallAddTurn(1, s, u, m)
    \/ AddTurnInsert(1)
    \/ Tick

SpecSess == InitConv /\ [][NextSess]_vars

-----------------------------------------------------------------------------
(* modules/memory.py: MemoryStore and MemoryManager *)

\* Memory calls made over a behaviour of SpecMem
MaxMemCalls == 3
\* last day of the calendar
MaxDay == 1

MemKeys == {"k1", "k2"}
MemValues == {"v1", "v2"}
\* MemoryType values the callers pass
MemoryTypes == {"preference", "goal"}
\* ttl_days: None (permanent) or a number of days
TtlDays == {None, [days |-> 1]}

\* uuid.uuid4(): an id no earlier call was given
NewMemoryId == Cardinality({i \in 1..Len(mem_log) : mem_log[i].op = "remember"}) + 1

\* The Memory that remember builds.  value is stored with json.dumps and read
\* with json.loads: a string comes back as it went in.
NewMemory(user_id, key, value, memory_type, ttl_days) ==
    [memory_id |-> NewMemoryId,
     user_id |-> user_id,
     type |-> memory_type,
     key |-> key,
     value |-> value,
     created_at |-> today,
     last_used |-> today,
     ttl_days |-> ttl_days,
     confidence |-> 100,
     source |-> "user_input"]

\* Does INSERT OR REPLACE of new delete old?  PRIMARY KEY memory_id,
\* UNIQUE(user_id, type, key)
Replaces(old, new) ==
    \/ old.memory_id = new.memory_id
    \/ (old.user_id = new.user_id /\ old.type = new.type /\ old.key = new.key)

\* MemoryStore.add_memory: INSERT OR REPLACE INTO memories
add_memory(rows, memory) == {m \in rows : ~Replaces(m, memory)} \cup {memory}

\* MemoryStore.get_memory: the rows SELECT ... WHERE user_id = ? AND key = ?
\* yields; fetchone takes the first of them, in an order the query leaves open
get_memory(rows, user_id, key) == {m \in rows : m.user_id = user_id /\ m.key = key}

\* MemoryStore.update_last_used
update_last_used(rows, memory_id, at) ==
    {IF m.memory_id = memory_id THEN [m EXCEPT !.last_used = at] ELSE m : m \in rows}

\* MemoryStore.delete_memory
delete_memory(rows, memory_id) == {m \in rows : m.memory_id # memory_id}

\* A value a call returned, as opposed to None
Some(x) == [value |-> x]

MemCall(op, user_id, key, value, memory_type, result) ==
    [op |-> op, user_id |-> user_id, key |-> key, value |-> value,
     type |-> memory_type, result |-> result]

\* MemoryManager.remember
Remember(user_id, key, value, memory_type, ttl_days) ==
    /\ Len(mem_log) < MaxMemCalls
    /\ LET memory == NewMemory(user_id, key, value, memory_type, ttl_days)
       IN  /\ memories' = add_memory(memories, memory)
           /\ mem_log' = Append(mem_log, MemCall("remember", user_id, key, value,
                                                 memory_type, Some(memory.memory_id)))
    /\ UNCHANGED today
    /\ UNCHANGED <<convVars, flowVars, wfVars, toolVars, modVars>>

\* MemoryManager.recall
Recall(user_id, key) ==
    /\ Len(mem_log) < MaxMemCalls
    /\ IF get_memory(memories, user_id, key) = {}
       THEN /\ mem_log' = Append(mem_log, MemCall("recall", user_id, key, "", "", None))
            /\ UNCHANGED memories
       ELSE \E memory \in get_memory(memories, user_id, key) :
               /\ memories' = update_last_used(memories, memory.memory_id, today)
               /\ mem_log' = Append(mem_log, MemCall("recall", user_id, key, "", "",
                                                     Some(memory.value)))
    /\ UNCHANGED today
    /\ UNCHANGED <<convVars, flowVars, wfVars, toolVars, modVars>>

\* MemoryManager.forget
Forget(user_id, key) ==
    /\ Len(mem_log) < MaxMemCalls
    /\ IF get_memory(memories, user_id, key) = {}
       THEN /\ mem_log' = Append(mem_log, MemCall("forget", user_id, key, "", "",
                                                  Some(FALSE)))
            /\ UNCHANGED memories
       ELSE \E memory \in get_memory(memories, user_id, key) :
               /\ memories' = delete_memory(memories, memory.memory_id)
               /\ mem_log' = Append(mem_log, MemCall("forget", user_id, key, "", "",
                                                     Some(TRUE)))
    /\ UNCHANGED today
    /\ UNCHANGED <<convVars, flowVars, wfVars, toolVars, modVars>>

\* A day passes
NextDay ==
    /\ today < MaxDay
    /\ today' = today + 1
    /\ UNCHANGED <<memories, mem_log>>
    /\ UNCHANGED <<convVars, flowVars, wfVars, toolVars, modVars>>

ConvUnused ==
    /\ conversations = {}
    /\ sessions = {}
    /\ req = [c \in Callers |-> Idle]
    /\ now = 0
    /\ runs = 0
    /\ llm = "none"
    /\ log = <<>>
    /\ overlap = {}
    /\ storage = "up"

InitMem ==
    /\ memories = {}
    /\ today = 0
    /\ mem_log = <<>>
    /\ ConvUnused /\ FlowUnused /\ WfUnused /\ ToolUnused /\ ModUnused

NextMem ==
    \/ \E u \in Users, k \in MemKeys, v \in MemValues, t \in MemoryTypes, d \in TtlDays :
          Remember(u, k, v, t, d)
    \/ \E u \in Users, k \in MemKeys : Recall(u, k)
    \/ \E u \in Users, k \in MemKeys : Forget(u, k)
    \/ NextDay

SpecMem == InitMem /\ [][NextMem]_vars

-----------------------------------------------------------------------------
(* modules/memory.py: Memory.is_expired, UserProfile, get_user_profile *)

\* Memory.is_expired, on the day `at`: (now - created).days > ttl_days
is_expired(memory, at) ==
    IF memory.ttl_days = None THEN FALSE
    ELSE (at - memory.created_at) > memory.ttl_days.days

\* MemoryStore.get_memories(user_id): SELECT ... WHERE user_id = ? ORDER BY
\* last_used DESC LIMIT 100.  The order among rows of equal last_used is left
\* open by the query: every list it may return.
get_memories(rows, user_id) ==
    LET mine == {m \in rows : m.user_id = user_id}
        n == Cardinality(mine)
    IN  {l \in [1..n -> mine] :
            /\ \A i, j \in 1..n : i # j => l[i] # l[j]
            /\ \A i, j \in 1..n : i < j => l[i].last_used >= l[j].last_used}

\* UserProfile(user_id=user_id): the fields the fold below writes, at their
\* defaults
DefaultProfile(user_id) ==
    [user_id |-> user_id, morning_productivity |-> FALSE,
     prefers_short_tasks |-> TRUE, long_term_goals |-> <<>>]

\* bool(mem.value) for a string
Bool(value) == value # ""

\* UserProfile.from_memories, the body of the loop
FoldMemory(profile, mem) ==
    IF mem.type = "preference"
    THEN IF mem.key = "morning_productivity"
         THEN [profile EXCEPT !.morning_productivity = Bool(mem.value)]
         ELSE IF mem.key = "prefers_short_tasks"
         THEN [profile EXCEPT !.prefers_short_tasks = Bool(mem.value)]
         ELSE profile
    ELSE IF mem.type = "goal"
    THEN [profile EXCEPT !.long_term_goals = Append(@, mem.value)]
    ELSE profile

RECURSIVE FoldMemories(_, _)
FoldMemories(profile, mems) ==
    IF mems = <<>> THEN profile
    ELSE FoldMemories(FoldMemory(profile, Head(mems)), Tail(mems))

\* UserProfile.from_memories
from_memories(user_id, mems) == FoldMemories(DefaultProfile(user_id), mems)

\* The keys and values of the entries a profile is built from
ProfileKeys == {"morning_productivity", "prefers_short_tasks"}
ProfileValues == {"yes", ""}
\* ttl_days: None (permanent), or gone once a day has passed
ProfileTtlDays == {None, [days |-> 0]}

\* MemoryManager.get_user_profile
GetUserProfile(user_id) ==
    /\ Len(mem_log) < MaxMemCalls
    /\ \E mems \in get_memories(memories, user_id) :
          mem_log' = Append(mem_log, MemCall("get_user_profile", user_id, "", "", "",
                                             Some(from_memories(user_id, mems))))
    /\ UNCHANGED <<memories, today>>
    /\ UNCHANGED <<convVars, flowVars, wfVars, toolVars, modVars>>

NextProfile ==
    \/ \E u \in Users, k \in ProfileKeys, v \in ProfileValues, t \in MemoryTypes,
          d \in ProfileTtlDays : Remember(u, k, v, t, d)
    \/ \E u \in Users : GetUserProfile(u)
    \/ NextDay

SpecProfile == InitMem /\ [][NextProfile]_vars

-----------------------------------------------------------------------------
(* modules/conversation_flow.py: IntentClassifier *)

\* Phrases a classified message is made of, at most
MaxPhrases == 3

\* A text is a sequence of characters here, one token per Chinese character.
\* Does text hold word at position i?
HasAt(text, word, i) ==
    /\ i + Len(word) - 1 <= Len(text)
    /\ \A k \in 1..Len(word) : text[i + k - 1] = word[k]

\* keyword in text
Contains(text, word) == \E i \in 1..(Len(text) + 1) : HasAt(text, word, i)

\* Keyword tables: of each table the entries written with the model's characters.
\* lei, shou-bu-liao, xiang-ku, wo-hen
EMOTION_KEYWORDS ==
    {<<"lei">>, <<"shou", "bu", "liao">>, <<"xiang", "ku">>, <<"wo", "hen">>}
\* ren-wu, qing-dan, xie, ji-hua
TASK_KEYWORDS == {<<"ren", "wu">>, <<"qing1", "dan">>, <<"xie">>, <<"ji", "hua">>}
\* ying-gai, jian-yi
DECISION_KEYWORDS == {<<"ying", "gai">>, <<"jian", "yi">>}
\* ni-hao, zai-ma
CASUAL_WORDS == {<<"ni", "hao">>, <<"zai", "ma">>}

\* A pattern first.*last ("." matches no newline); a pattern without ".*" has
\* first = {<<>>}.  first and last hold the alternatives the model's characters
\* can spell.
Pattern(first, last) == [first |-> first, last |-> last]

\* wo (hen|tai) (lei|fan);  xin-qing (hen|tai) cha;  shou-bu-liao;  (xiang|yao) ku
EMOTION_PATTERNS ==
    {Pattern({<<>>}, {<<"wo", a, b>> : a \in {"hen", "tai"}, b \in {"lei", "fan"}}),
     Pattern({<<>>}, {<<"xin", "qing", a, "cha">> : a \in {"hen", "tai"}}),
     Pattern({<<>>}, {<<"shou", "bu", "liao">>}),
     Pattern({<<>>}, {<<a, "ku">> : a \in {"xiang", "yao"}})}

\* bang-wo (ji-hua);  you .* jian-shi;  .* qing-dan
TASK_PATTERNS ==
    {Pattern({<<>>}, {<<"bang", "wo", "ji", "hua">>}),
     Pattern({<<"you">>}, {<<"jian", "shi">>}),
     Pattern({<<>>}, {<<"qing1", "dan">>})}

\* re.search(pattern, text)
Search(p, text) ==
    \E f \in p.first, l \in p.last :
        \E i, j \in 1..(Len(text) + 1) :
            /\ HasAt(text, f, i)
            /\ i + Len(f) <= j
            /\ HasAt(text, l, j)
            /\ \A k \in (i + Len(f))..(j - 1) : text[k] # "nl"

\* The signals found: the keywords contained and the patterns matched
Signals(text, keywords, patterns) ==
    {[keyword |-> k] : k \in {w \in keywords : Contains(text, w)}}
        \cup {[pattern |-> p] : p \in {q \in patterns : Search(q, text)}}

IntentClassification(intent, confidence, signals, suggested_mode) ==
    [intent |-> intent, confidence |-> confidence, signals |-> signals,
     suggested_mode |-> suggested_mode]

\* Variant: the mixed case taken only when the task signals are the majority
MoreTasksThanEmotion(emotion_score, task_score) ==
    emotion_score > 0 /\ task_score >= emotion_score

\* classify's first test: emotion_score > 0 and task_score > 0
IsMixed(emotion_score, task_score) == emotion_score > 0 /\ task_score > 0

\* IntentClassifier.classify.  Confidences are in hundredths.
classify(input) ==
    LET text == Strip(Lower(input))
        emotion_signals == Signals(text, EMOTION_KEYWORDS, EMOTION_PATTERNS)
        task_signals == Signals(text, TASK_KEYWORDS, TASK_PATTERNS)
        decision_signals == Signals(text, DECISION_KEYWORDS, {})
        emotion_score == Cardinality(emotion_signals)
        task_score == Cardinality(task_signals)
        decision_score == Cardinality(decision_signals)
    IN  IF IsMixed(emotion_score, task_score)
        THEN IntentClassification("mixed", 85, emotion_signals \cup task_signals, "mixed")
        ELSE IF emotion_score >= 2 \/ (emotion_score = 1 /\ task_score = 0)
        THEN IntentClassification("emotion", Min2(70 + emotion_score * 10, 95),
                                  emotion_signals, "emotion_support")
        ELSE IF task_score >= 2
        THEN IntentClassification("task", Min2(70 + task_score * 10, 95),
                                  task_signals, "action_assistant")
        ELSE IF decision_score >= 1
        THEN IntentClassification("decision", 75, decision_signals, "action_assistant")
        ELSE IF Len(text) < 10 \/ \E w \in CASUAL_WORDS : Contains(text, w)
        THEN IntentClassification("casual", 60, {[keyword |-> <<"short_text">>]},
                                  "emotion_support")
        ELSE IntentClassification("unknown", 40, {}, "unknown")

\* What the classified messages are made of: phrases that carry a keyword, a
\* pattern, both or neither, a run of ten other characters, blanks, a capital
Phrases ==
    {<<"lei">>, <<"shou", "bu", "liao">>, <<"xin", "qing", "hen", "cha">>,
     <<"ren", "wu">>, <<"qing1", "dan">>, <<"you", "x", "jian", "shi">>,
     <<"ying", "gai">>, <<"ni", "hao">>,
     <<"x", "x", "x", "x", "x", "x", "x", "x", "x", "x">>, <<"sp">>, <<"A">>}

RECURSIVE PhraseTexts(_)
\* The texts of at most n phrases
PhraseTexts(n) ==
    IF n = 0 THEN {<<>>}
    ELSE LET shorter == PhraseTexts(n - 1)
         IN  shorter \cup {t \o p : t \in shorter, p \in Phrases}

\* A caller calls classify
Classify ==
    /\ classification = None
    /\ classification' = classify(classify_input)
    /\ UNCHANGED classify_input
    /\ UNCHANGED <<convVars, memVars, wfVars, toolVars, modVars>>

InitFlow ==
    /\ classify_input \in PhraseTexts(MaxPhrases)
    /\ classification = None
    /\ ConvUnused /\ MemUnused /\ WfUnused /\ ToolUnused /\ ModUnused

NextFlow == Classify

SpecFlow == InitFlow /\ [][NextFlow]_vars

-----------------------------------------------------------------------------
(* agents/tools.py: ActionDecompositionTool *)

\* largest total_minutes given to the tool
MaxTotalMinutes == 130

\* Tasks are sequences of words here.
\* ActionDecompositionTool._generate_quick_start
_generate_quick_start(task) ==
    LET task_lower == Lower(task)
    IN  IF ContainsAny(task_lower, {"xie", "baogao"}) THEN <<"open_document">>
        ELSE IF ContainsAny(task_lower, {"xuexi"}) THEN <<"open_material">>
        ELSE <<"open_tool_for">> \o task

ActionStep(step_number, description, estimated_minutes, difficulty, type) ==
    [step_number |-> step_number, description |-> description,
     estimated_minutes |-> estimated_minutes, difficulty |-> difficulty,
     type |-> type]

\* ActionDecompositionTool._run.  The result goes through json.dumps and
\* json.loads, which return the numbers and strings unchanged.
decompose(task, total_minutes) ==
    LET remaining_time == total_minutes - 5
        num_steps == Max2(2, remaining_time \div 30)
        first == ActionStep(1, _generate_quick_start(task), 5, "easy", "immediate")
        core == [i \in 1..num_steps |->
                    ActionStep(i + 1, <<"part", i>>,
                               Min2(30, remaining_time \div num_steps),
                               "medium", "core")]
        review == ActionStep(num_steps + 2, <<"check">> \o task, 10, "easy", "review")
        steps == <<first>> \o core \o <<review>>
    IN  [task |-> task,
         total_estimated_minutes |-> total_minutes,
         steps |-> steps,
         quick_start |-> steps[1]]

\* A caller runs the tool
Decompose ==
    /\ decomposition = None
    /\ decomposition' = decompose(decompose_args.task, decompose_args.total_minutes)
    /\ UNCHANGED decompose_args
    /\ UNCHANGED <<convVars, memVars, flowVars, wfVars, modVars>>

InitTool ==
    /\ decompose_args \in [task : {<<"xie", "baogao">>, <<"sanbu">>},
                           total_minutes : 0..MaxTotalMinutes]
    /\ decomposition = None
    /\ ConvUnused /\ MemUnused /\ FlowUnused /\ WfUnused /\ ModUnused

NextTool == Decompose

SpecTool == InitTool /\ [][NextTool]_vars

-----------------------------------------------------------------------------
(* agents/tools.py: TaskAnalysisTool; agents/workflow.py: LifeOSWorkflow *)

\* Tasks in a run's raw_tasks, at most
MaxTasks == 2

\* The words of the task descriptions: jintian (today), benzhou (this week),
\* xiazhou (next week), baogao (report), youjian (mail), huifu (reply),
\* xie (write), xuexi (study), yundong (exercise), sanbu (a walk: no keyword)
TaskDescriptions ==
    {<<"jintian", "xie", "baogao">>, <<"jintian", "huifu", "youjian">>,
     <<"jintian", "sanbu">>, <<"benzhou", "baogao">>, <<"benzhou", "huifu">>,
     <<"benzhou", "yundong">>, <<"baogao">>, <<"youjian">>, <<"sanbu">>,
     <<"xiazhou", "xuexi">>}

\* TaskAnalysisTool._run, one task.  Each keyword list holds its words of the
\* vocabulary above.
AnalyzeTask(task_desc) ==
    LET task_lower == Lower(task_desc)
        urgency == IF ContainsAny(task_lower, {"jintian"}) THEN 9
                   ELSE IF ContainsAny(task_lower, {"benzhou"}) THEN 7
                   ELSE IF ContainsAny(task_lower, {"xiazhou"}) THEN 5
                   ELSE 5
        importance == IF ContainsAny(task_lower, {"baogao"}) THEN 8
                      ELSE IF ContainsAny(task_lower, {"youjian", "huifu"}) THEN 5
                      ELSE 6
        category == IF ContainsAny(task_lower, {"baogao"}) THEN "work"
                    ELSE IF ContainsAny(task_lower, {"xuexi"}) THEN "learning"
                    ELSE IF ContainsAny(task_lower, {"yundong"}) THEN "health"
                    ELSE "personal"
        estimated_minutes == IF ContainsAny(task_lower, {"xie"}) THEN 60
                             ELSE IF ContainsAny(task_lower, {"huifu"}) THEN 10
                             ELSE IF ContainsAny(task_lower, {"baogao"}) THEN 120
                             ELSE 30
        can_defer == urgency < 7 /\ importance < 7
        reason == IF urgency >= 9 THEN "urgent"
                  ELSE IF importance >= 8 THEN "important"
                  ELSE IF can_defer THEN "can_wait"
                  ELSE "normal"
    IN  [description |-> task_desc, category |-> category,
         importance |-> importance, urgency |-> urgency,
         estimated_minutes |-> estimated_minutes, can_defer |-> can_defer,
         reason |-> reason]

\* TaskAnalysisTool._run
TaskAnalysisTool(tasks) == [i \in 1..Len(tasks) |-> AnalyzeTask(tasks[i])]

\* LifeOSWorkflow._task_analysis_node
_task_analysis_node(st) ==
    [analyzed_tasks |-> TaskAnalysisTool(st.raw_tasks),
     processing_steps |-> <<<<"analysis", Len(st.raw_tasks)>>>>]

\* _priority_sorting_node, the if: the task goes to high_priority
InHigh(task) == (task.importance >= 7 /\ task.urgency >= 7) \/ task.urgency >= 9

\* Variant: the second test written as an if of its own
InMediumToo(task) == (task.importance >= 6 /\ task.urgency >= 5) \/ task.importance >= 8

\* _priority_sorting_node, the elif: the task goes to medium_priority
InMedium(task) ==
    /\ ~InHigh(task)
    /\ (task.importance >= 6 /\ task.urgency >= 5) \/ task.importance >= 8

\* _priority_sorting_node, the else: the task goes to low_priority
InLow(task) == ~InHigh(task) /\ ~InMedium(task)

\* LifeOSWorkflow._priority_sorting_node
_priority_sorting_node(st) ==
    LET analyzed_tasks == st.analyzed_tasks
        high_priority == SelectSeq(analyzed_tasks, InHigh)
        medium_priority == SelectSeq(analyzed_tasks, InMedium)
        low_priority == SelectSeq(analyzed_tasks, InLow)
        deferred == SelectSeq(analyzed_tasks, LAMBDA task : task.can_defer)
    IN  [high_priority |-> high_priority,
         medium_priority |-> medium_priority,
         low_priority |-> low_priority,
         deferrable |-> [i \in 1..Len(deferred) |-> deferred[i].description],
         processing_steps |->
             <<<<"sorting", Len(high_priority), Len(medium_priority),
                 Len(low_priority)>>>>]

\* LifeOSWorkflow._action_decomposition_node
_action_decomposition_node(st) ==
    IF st.high_priority = <<>>
    THEN [recommended_task |-> None, action_steps |-> <<>>,
          quick_start_action |-> None,
          processing_steps |-> <<<<"decomposition", 0>>>>]
    ELSE LET recommended_task == st.high_priority[1]
             result == decompose(recommended_task.description,
                                 recommended_task.estimated_minutes)
         IN  [recommended_task |-> recommended_task,
              action_steps |-> result.steps,
              quick_start_action |-> result.quick_start,
              processing_steps |-> <<<<"decomposition", Len(result.steps)>>>>]

\* LifeOSWorkflow.run's initial_state, once task_extraction has written
\* raw_tasks: the fields the task nodes read and write
TaskState(raw_tasks) ==
    [raw_tasks |-> raw_tasks, analyzed_tasks |-> <<>>,
     high_priority |-> <<>>, medium_priority |-> <<>>, low_priority |-> <<>>,
     deferrable |-> <<>>, recommended_task |-> None, action_steps |-> <<>>,
     quick_start_action |-> None,
     processing_steps |-> <<<<"extraction", Len(raw_tasks)>>>>]

RECURSIVE TaskLists(_)
\* The lists of at most n task descriptions
TaskLists(n) ==
    IF n = 0 THEN {<<>>}
    ELSE LET shorter == TaskLists(n - 1)
         IN  shorter \cup {Append(l, d) : l \in shorter, d \in TaskDescriptions}

\* The executor runs node task_analysis, then the edge to priority_sorting
TaskAnalysis ==
    /\ wf_pc = "task_analysis"
    /\ wf' = Merge(wf, _task_analysis_node(wf))
    /\ wf_pc' = "priority_sorting"
    /\ wf_path' = Append(wf_path, "task_analysis")
    /\ UNCHANGED wf_llm
    /\ UNCHANGED <<convVars, memVars, flowVars, toolVars, modVars>>

PrioritySorting ==
    /\ wf_pc = "priority_sorting"
    /\ wf' = Merge(wf, _priority_sorting_node(wf))
    /\ wf_pc' = "action_decomposition"
    /\ wf_path' = Append(wf_path, "priority_sorting")
    /\ UNCHANGED wf_llm
    /\ UNCHANGED <<convVars, memVars, flowVars, toolVars, modVars>>

ActionDecomposition ==
    /\ wf_pc = "action_decomposition"
    /\ wf' = Merge(wf, _action_decomposition_node(wf))
    /\ wf_pc' = "personalization"
    /\ wf_path' = Append(wf_path, "action_decomposition")
    /\ UNCHANGED wf_llm
    /\ UNCHANGED <<convVars, memVars, flowVars, toolVars, modVars>>

InitTasks ==
    /\ wf \in {TaskState(l) : l \in TaskLists(MaxTasks)}
    /\ wf_pc = "task_analysis"
    /\ wf_path = <<"intent_recognition", "task_extraction">>
    /\ wf_llm = "none"
    /\ ConvUnused /\ MemUnused /\ FlowUnused /\ ToolUnused /\ ModUnused

NextTasks == TaskAnalysis \/ PrioritySorting \/ ActionDecomposition

SpecTasks == InitTasks /\ [][NextTasks]_vars

-----------------------------------------------------------------------------
(* agents/workflow.py: LifeOSWorkflow, the whole graph *)

\* The keys of the conditional edge out of intent_recognition, and their nodes
LifeOSRouteTable ==
    [task |-> "task_extraction", emotion |-> "emotion_support",
     mixed |-> "task_extraction", unknown |-> "emotion_support"]

\* LifeOSWorkflow._route_by_intent
LifeOS_route_by_intent(st) ==
    IF st.intent \in {"task", "decision"} THEN "task"
    ELSE IF st.intent = "emotion" THEN "emotion"
    ELSE IF st.intent = "mixed" THEN "mixed"
    ELSE "unknown"

\* What the generator may answer to LifeOSWorkflow's intent request: text that
\* json.loads rejects or that is no object (kind "text"), or an object whose
\* intent is one of the five of AgentState, another word, or absent, and whose
\* confidence is absent, a number, or not a number
LifeOSIntentAnswers ==
    {[kind |-> "text"]}
        \cup {[kind |-> "json", intent |-> i, confidence |-> c] :
                 i \in {"task", "emotion", "mixed", "unknown", "decision",
                        "casual", "absent"},
                 c \in {"absent", "0.95", "high"}}

\* LifeOSWorkflow._intent_recognition_node, mock mode (self.llm is None)
MockIntent(text) ==
    LET user_lower == Lower(text)
    IN  IF ContainsAny(user_lower, {"lei", "jiaolv", "yali", "bengkui"})
        THEN IF ContainsAny(user_lower, {"renwu", "yaozuo", "wancheng"})
             THEN [intent |-> "mixed", confidence |-> 85, reasoning |-> "keywords"]
             ELSE [intent |-> "emotion", confidence |-> 90, reasoning |-> "keywords"]
        ELSE IF ContainsAny(user_lower, {"renwu", "yaozuo", "zhengli", "anpai"})
        THEN [intent |-> "task", confidence |-> 90, reasoning |-> "keywords"]
        ELSE [intent |-> "unknown", confidence |-> 40, reasoning |-> "keywords"]

\* LifeOSWorkflow._intent_recognition_node, with a generator that answered
AnsweredIntent(reply) ==
    IF reply.kind = "text"
    THEN [intent |-> "unknown", confidence |-> 30, reasoning |-> "parse_failed"]
    ELSE [intent |-> IF reply.intent = "absent" THEN "unknown" ELSE reply.intent,
          confidence |-> IF reply.confidence = "absent" THEN 50 ELSE 95,
          reasoning |-> "llm"]

\* Does the node raise?  self.llm.invoke is called outside the try, and so is
\* the print that formats confidence with :.2f
LifeOSIntentRaises(reply) ==
    \/ reply.kind = "raise"
    \/ reply.kind = "json" /\ reply.confidence = "high"

\* LifeOSWorkflow._intent_recognition_node
LifeOS_intent_recognition_node(st, reply) ==
    LET r == IF reply.kind = "none" THEN MockIntent(st.user_input)
             ELSE AnsweredIntent(reply)
    IN  [intent |-> r.intent,
         intent_confidence |-> r.confidence,
         processing_steps |-> << <<"intent", r.intent, r.reasoning>> >>,
         should_continue |-> TRUE]

\* char.isalnum() of a token: words and digits, not blanks or punctuation
Punctuation == {"dot", "bang"}

IsAlnum(tok) == tok \notin Whitespace \cup Punctuation

RECURSIVE DropWhile(_, _)
DropWhile(text, toks) ==
    IF text # <<>> /\ Head(text) \in toks THEN DropWhile(Tail(text), toks) ELSE text

\* re.sub(r'^\d+[\.\)]?\s*', '', line): a leading number, one mark after it
\* and the blanks that follow are removed; a line without a leading digit is
\* left as it is
RemoveOrdinal(line) ==
    IF line = <<>> \/ Head(line) # "1" THEN line
    ELSE LET rest == DropWhile(line, {"1"})
             after == IF rest # <<>> /\ Head(rest) = "dot" THEN Tail(rest) ELSE rest
         IN  DropWhile(after, Whitespace)

\* _task_extraction_node, mock mode: the non-blank lines that hold a letter or
\* a digit, without their ordinal, unless nothing is left
MockTasks(text) ==
    LET lines == StrippedLines(text)
        kept == SelectSeq(lines, LAMBDA l : (\E i \in 1..Len(l) : IsAlnum(l[i]))
                                            /\ RemoveOrdinal(l) # <<>>)
    IN  [i \in 1..Len(kept) |-> RemoveOrdinal(kept[i])]

\* What the generator may answer to the task request: text that json.loads
\* rejects, or a JSON list of task descriptions
LifeOSTaskAnswers ==
    {[kind |-> "text"]}
        \cup {[kind |-> "json", tasks |-> l] :
                 l \in {<<>>, << <<"jintian", "xie", "baogao">> >>,
                        << <<"sanbu">>, <<"benzhou", "baogao">> >>}}

\* LifeOSWorkflow._task_extraction_node
LifeOS_task_extraction_node(st, reply) ==
    LET tasks == IF reply.kind = "none" THEN MockTasks(st.user_input)
                 ELSE IF reply.kind = "text" THEN StrippedLines(st.user_input)
                 ELSE reply.tasks
    IN  [raw_tasks |-> tasks,
         processing_steps |-> << <<"extraction", Len(tasks)>> >>]

\* What MemorySearchTool._run gives the personalization node: the flags of the
\* user's profile, or an exception (user_context = {} then)
EmptyContext == [empty |-> TRUE]

MemoryAnswers ==
    {EmptyContext}
        \cup {[morning_productivity |-> m, prefers_short_tasks |-> p] :
                 m \in BOOLEAN, p \in BOOLEAN}

\* user_context.get(key)
ContextFlag(user_context, key) == key \in DOMAIN user_context /\ user_context[key]

\* LifeOSWorkflow._personalization_node
LifeOS_personalization_node(st, user_context) ==
    LET adjustments ==
            (IF ContextFlag(user_context, "morning_productivity")
             THEN << <<"adjust_morning">> >> ELSE <<>>)
                \o (IF ContextFlag(user_context, "prefers_short_tasks")
                    THEN << <<"adjust_short">> >> ELSE <<>>)
                \o (IF st.deferrable # <<>>
                    THEN << <<"adjust_defer", Len(st.deferrable)>> >> ELSE <<>>)
    IN  [user_context |-> user_context,
         personalized_adjustments |-> adjustments,
         processing_steps |-> << <<"personalization", Len(adjustments)>> >>]

\* LifeOSWorkflow._output_generation_node: the parts of the message
LifeOS_output_generation_node(st) ==
    LET high_priority == st.high_priority
        quick_start == st.quick_start_action
        output_parts ==
            << <<"summary", Len(st.analyzed_tasks)>> >>
                \o (IF high_priority # <<>>
                    THEN << <<"high_header">> >>
                            \o [i \in 1..Len(high_priority) |->
                                   <<i, high_priority[i].description,
                                     high_priority[i].reason>>]
                    ELSE <<>>)
                \o (IF st.medium_priority # <<>>
                    THEN << <<"medium_header">> >>
                            \o [i \in 1..Len(st.medium_priority) |->
                                   <<i, st.medium_priority[i].description>>]
                    ELSE <<>>)
                \o (IF st.deferrable # <<>>
                    THEN << <<"deferrable_header">> >>
                            \o [i \in 1..Len(st.deferrable) |-> <<i, st.deferrable[i]>>]
                    ELSE <<>>)
                \o (IF quick_start # None
                    THEN << <<"next_action", quick_start.estimated_minutes,
                              quick_start.description>> >>
                    ELSE <<>>)
                \o (IF st.personalized_adjustments # <<>>
                    THEN << <<"adjustments_header">> >> \o st.personalized_adjustments
                    ELSE <<>>)
                \o << <<"closing_header">> >>
                \o (IF high_priority # <<>>
                    THEN << <<"focus_on", high_priority[1].description>> >> ELSE <<>>)
                \o (IF quick_start # None
                    THEN << <<"start_with", quick_start.estimated_minutes>> >> ELSE <<>>)
                \o (IF st.deferrable # <<>> THEN << <<"deferred_note">> >> ELSE <<>>)
                \o << <<"closing">> >>
    IN  [final_message |-> output_parts,
         should_continue |-> FALSE,
         processing_steps |-> << <<"output", "done">> >>]

\* LifeOSWorkflow._emotion_support_node: a fixed message that offers a minute of
\* breathing or a task list
LifeOS_emotion_support_node(st) ==
    [final_message |-> << <<"emotion_support_message">> >>,
     should_continue |-> FALSE,
     processing_steps |-> << <<"emotion", "warm_reply">> >>]

\* LifeOSWorkflow.run's initial_state
LifeOSInitialState(user_input) ==
    [user_input |-> user_input, intent |-> "", intent_confidence |-> 0,
     raw_tasks |-> <<>>, analyzed_tasks |-> <<>>,
     high_priority |-> <<>>, medium_priority |-> <<>>, low_priority |-> <<>>,
     deferrable |-> <<>>, recommended_task |-> None, action_steps |-> <<>>,
     quick_start_action |-> None, user_context |-> None,
     personalized_adjustments |-> <<>>, final_message |-> <<>>,
     processing_steps |-> <<>>, errors |-> <<>>,
     should_continue |-> TRUE, needs_clarification |-> FALSE]

\* The messages given to LifeOSWorkflow.run: emotion, emotion with a task word,
\* a numbered task list, task lines without a keyword, a line of punctuation
\* and a bare number among the lines, a greeting, the empty message
LifeOSTexts ==
    {<<"bengkui">>, <<"bengkui", "renwu">>, <<"HI">>, <<>>,
     <<"wancheng", "baogao">>,
     <<"renwu", "nl", "1", "dot", "sp", "jintian", "xie", "baogao", "nl",
       "1", "sp", "sanbu">>,
     <<"zhengli", "nl", "bang", "nl", "1", "dot", "nl", "benzhou", "huifu">>,
     <<"jintian", "huifu", "youjian", "nl", "xiazhou", "xuexi">>}

\* The executor runs a node of a LifeOSWorkflow run: its update is merged
LifeOSAdvance(node, upd, next) ==
    /\ wf' = Merge(wf, upd)
    /\ wf_pc' = next
    /\ wf_path' = Append(wf_path, node)
    /\ UNCHANGED wf_llm
    /\ UNCHANGED <<convVars, memVars, flowVars, toolVars, modVars>>

\* An exception leaves a node: invoke raises, and run, which has no handler
\* around it, raises to its caller
LifeOSRaise(node) ==
    /\ wf_pc' = "raised"
    /\ wf_path' = Append(wf_path, node)
    /\ UNCHANGED <<wf, wf_llm>>
    /\ UNCHANGED <<convVars, memVars, flowVars, toolVars, modVars>>

\* Node intent_recognition and its conditional edge
LifeOSIntentRecognition ==
    /\ wf_pc = "intent_recognition"
    /\ \E reply \in Generate(wf_llm, LifeOSIntentAnswers) :
          IF LifeOSIntentRaises(reply)
          THEN LifeOSRaise("intent_recognition")
          ELSE LET upd == LifeOS_intent_recognition_node(wf, reply)
               IN  LifeOSAdvance("intent_recognition", upd,
                                 LifeOSRouteTable[LifeOS_route_by_intent(Merge(wf, upd))])

\* Node task_extraction; self.llm.invoke is called outside the try
TaskExtraction ==
    /\ wf_pc = "task_extraction"
    /\ \E reply \in Generate(wf_llm, LifeOSTaskAnswers) :
          IF reply.kind = "raise"
          THEN LifeOSRaise("task_extraction")
          ELSE LifeOSAdvance("task_extraction",
                             LifeOS_task_extraction_node(wf, reply), "task_analysis")

\* Node personalization
LifeOSPersonalization ==
    /\ wf_pc = "personalization"
    /\ \E user_context \in MemoryAnswers :
          LifeOSAdvance("personalization",
                        LifeOS_personalization_node(wf, user_context),
                        "output_generation")

\* Node output_generation, then END
LifeOSOutputGeneration ==
    /\ wf_pc = "output_generation"
    /\ LifeOSAdvance("output_generation", LifeOS_output_generation_node(wf), "END")

\* Node emotion_support, then END
LifeOSEmotionSupport ==
    /\ wf_pc = "emotion_support"
    /\ LifeOSAdvance("emotion_support", LifeOS_emotion_support_node(wf), "END")

\* One run of a LifeOSWorkflow built in mock mode or with a live generator
InitLife ==
    /\ wf \in {LifeOSInitialState(text) : text \in LifeOSTexts}
    /\ wf_pc = "intent_recognition"
    /\ wf_path = <<>>
    /\ wf_llm \in {"none", "live"}
    /\ ConvUnused /\ MemUnused /\ FlowUnused /\ ToolUnused /\ ModUnused

NextLife ==
    \/ LifeOSIntentRecognition
    \/ TaskExtraction
    \/ TaskAnalysis
    \/ PrioritySorting
    \/ ActionDecomposition
    \/ LifeOSPersonalization
    \/ LifeOSOutputGeneration
    \/ LifeOSEmotionSupport

SpecLife == InitLife /\ [][NextLife]_vars

-----------------------------------------------------------------------------
(* modules/memory.py: the maintenance tasks cleanup_expired and archive_unused *)

\* archive_unused's default unused_days
UnusedDays == 180

\* Memory.should_archive, on the day `at`: (now - last_used).days > unused_days
should_archive(memory, at, unused_days) == (at - memory.last_used) > unused_days

\* MemoryStore.cleanup_expired: every entry of get_all_memories that is expired
\* is deleted
cleanup_expired(rows, at) == {m \in rows : ~is_expired(m, at)}

\* MemoryStore.archive_unused
archive_unused(rows, at, unused_days) == {m \in rows : ~should_archive(m, at, unused_days)}

\* The last day of the calendar of the maintenance specification
LastSweepDay == MaxDay * (UnusedDays + 1)

\* Nobody calls for more than unused_days days
LongPause ==
    /\ today + UnusedDays + 1 <= LastSweepDay
    /\ today' = today + UnusedDays + 1
    /\ UNCHANGED <<memories, mem_log>>
    /\ UNCHANGED <<convVars, flowVars, wfVars, toolVars, modVars>>

\* A maintenance task calls cleanup_expired; it returns the number deleted
CleanupExpired ==
    /\ Len(mem_log) < MaxMemCalls
    /\ memories' = cleanup_expired(memories, today)
    /\ mem_log' = Append(mem_log,
                         MemCall("cleanup_expired", "", "", "", "",
                                 Some(Cardinality(memories \ memories'))))
    /\ UNCHANGED today
    /\ UNCHANGED <<convVars, flowVars, wfVars, toolVars, modVars>>

\* A maintenance task calls archive_unused()
ArchiveUnused ==
    /\ Len(mem_log) < MaxMemCalls
    /\ memories' = archive_unused(memories, today, UnusedDays)
    /\ mem_log' = Append(mem_log,
                         MemCall("archive_unused", "", "", "", "",
                                 Some(Cardinality(memories \ memories'))))
    /\ UNCHANGED today
    /\ UNCHANGED <<convVars, flowVars, wfVars, toolVars, modVars>>

NextSweep ==
    \/ \E u \in Users, k \in MemKeys, t \in MemoryTypes, d \in ProfileTtlDays :
          Remember(u, k, "v1", t, d)
    \/ \E u \in Users, k \in MemKeys : Recall(u, k)
    \/ NextDay
    \/ LongPause
    \/ CleanupExpired
    \/ ArchiveUnused

SpecSweep == InitMem /\ [][NextSweep]_vars

-----------------------------------------------------------------------------
(* modules/next_action.py: adjust_suggestions_by_preferences *)

\* candidate actions in a NextActionResult, at most
MaxCandidates == 2

\* A CandidateAction: the fields the adjustment reads or writes.  suggest_time
\* is None or the hour of an ISO timestamp.
CandidateAction(est_minutes, suggest_add_to_calendar, suggest_time) ==
    [est_minutes |-> est_minutes,
     suggest_add_to_calendar |-> suggest_add_to_calendar,
     suggest_time |-> suggest_time]

\* The candidate actions a parsed generator answer may hold
CandidateActions ==
    {CandidateAction(m, cal, t) :
        m \in {1, 5, 6, 15}, cal \in BOOLEAN,
        t \in {None, [hour |-> 9], [hour |-> 14]}}

RECURSIVE CandidateLists(_)
\* The lists of at most n candidate actions
CandidateLists(n) ==
    IF n = 0 THEN {<<>>}
    ELSE LET shorter == CandidateLists(n - 1)
         IN  shorter \cup {Append(l, a) : l \in shorter, a \in CandidateActions}

\* UserPreferences: the fields the adjustment reads
UserPreferences(morning_productivity, prefers_short_tasks) ==
    [morning_productivity |-> morning_productivity,
     prefers_short_tasks |-> prefers_short_tasks,
     work_hours_start |-> 9]

\* min(range(len(actions)), key=lambda i: actions[i].est_minutes): the first
\* index, counted from 0, of the smallest est_minutes
ShortestIdx(actions) ==
    Min({i \in 1..Len(actions) :
            \A j \in 1..Len(actions) :
                actions[i].est_minutes <= actions[j].est_minutes}) - 1

\* min() of an empty range raises ValueError
AdjustRaises(result, prefs) ==
    prefs.prefers_short_tasks /\ result.candidate_actions = <<>>

\* The recommendation moves to the shortest action only when that action takes
\* at most 5 minutes
RecommendShortest(result, prefs) ==
    LET shortest_idx == ShortestIdx(result.candidate_actions)
        est == result.candidate_actions[shortest_idx + 1].est_minutes
    IN  IF prefs.prefers_short_tasks /\ est <= 5
        THEN [result EXCEPT !.recommended_action_index = shortest_idx,
                            !.rationale = <<"shortest_as_start", est>>]
        ELSE result

\* Calendar actions suggested for the afternoon are moved to work_hours_start
MoveToMorning(action, prefs) ==
    IF /\ action.suggest_add_to_calendar
       /\ action.suggest_time # None
       /\ action.suggest_time.hour >= 12
    THEN [action EXCEPT !.suggest_time = [hour |-> prefs.work_hours_start]]
    ELSE action

\* adjust_suggestions_by_preferences, when it does not raise
adjust_suggestions_by_preferences(result, prefs) ==
    LET r == RecommendShortest(result, prefs)
    IN  IF prefs.morning_productivity
        THEN [r EXCEPT !.candidate_actions =
                          [i \in 1..Len(@) |-> MoveToMorning(@[i], prefs)]]
        ELSE r

\* A caller adjusts a parsed result; the result object is changed in place
AdjustSuggestions ==
    /\ na_pc = "given"
    /\ IF AdjustRaises(na_result, na_prefs)
       THEN na_pc' = "raised" /\ na_result' = na_result
       ELSE /\ na_pc' = "returned"
            /\ na_result' = adjust_suggestions_by_preferences(na_result, na_prefs)
    /\ UNCHANGED <<na_prefs, conversation_states, chat_log, graph_db, graph>>
    /\ UNCHANGED <<convVars, memVars, flowVars, wfVars, toolVars>>

InitNextAction ==
    /\ \E actions \in CandidateLists(MaxCandidates) :
          \E idx \in 0..Max2(Len(actions) - 1, 0) :
              na_result = [candidate_actions |-> actions,
                           recommended_action_index |-> idx,
                           rationale |-> <<"llm_rationale">>]
    /\ na_prefs \in {UserPreferences(mp, ps) : mp \in BOOLEAN, ps \in BOOLEAN}
    /\ na_pc = "given"
    /\ ConvUnused /\ MemUnused /\ FlowUnused /\ WfUnused /\ ToolUnused
    /\ ChatUnused /\ GraphUnused

NextNextAction == AdjustSuggestions

SpecNextAction == InitNextAction /\ [][NextNextAction]_vars

-----------------------------------------------------------------------------
(* modules/conversation_flow.py: ConversationFlowManager, ModeSwitchTrigger;
   modules/lifeos_real.py: LifeOSRealAssistant.chat *)

\* chat calls made, at most
MaxChats == 3

\* ConversationState(current_mode=UNKNOWN, last_intent=UNKNOWN)
NewConversationState ==
    [current_mode |-> "unknown", last_intent |-> "unknown", turn_count |-> 0]

\* ConversationFlowManager.route: the mode chosen, the classification, and the
\* state object as route leaves it.  The response suggestion, a template drawn
\* with random.choice, is text only and left out.
route(user_input, state) ==
    LET cls == classify(user_input)
        st == IF state = None THEN NewConversationState ELSE state
        chosen_mode == IF cls.confidence >= 60 THEN cls.suggested_mode ELSE "unknown"
    IN  [chosen_mode |-> chosen_mode,
         classification |-> cls,
         state |-> [current_mode |-> chosen_mode,
                    last_intent |-> cls.intent,
                    turn_count |-> st.turn_count + 1]]

\* ModeSwitchTrigger's tables: of each the entries written with the model's
\* characters.  bang-wo, zuo-dian-shen-me, ji-hua
EMOTION_TO_ACTION_TRIGGERS ==
    {<<"bang", "wo">>, <<"zuo", "dian", "shen", "me">>, <<"ji", "hua">>}
\* lei-le, shou-bu-liao
ACTION_TO_EMOTION_TRIGGERS == {<<"lei", "le">>, <<"shou", "bu", "liao">>}

\* ModeSwitchTrigger.should_switch_to_action
should_switch_to_action(user_input, current_mode) ==
    IF current_mode # "emotion_support" THEN FALSE
    ELSE \E trigger \in EMOTION_TO_ACTION_TRIGGERS : Contains(Lower(user_input), trigger)

\* ModeSwitchTrigger.should_switch_to_emotion
should_switch_to_emotion(user_input, current_mode) ==
    IF current_mode # "action_assistant" THEN FALSE
    ELSE \E trigger \in ACTION_TO_EMOTION_TRIGGERS : Contains(Lower(user_input), trigger)

\* conversation_states.get(user_id)
StateOf(user_id) ==
    IF user_id \in DOMAIN conversation_states THEN conversation_states[user_id] ELSE None

\* The "mode" of the dict chat returns: the handler of the routed mode answers;
\* in action mode the answer comes from the generator, and when that call or
\* the parse of its reply fails the dict has success False and no mode
ResponseMode(chosen_mode, generated) ==
    CASE chosen_mode = "emotion_support" -> "emotion_support"
      [] chosen_mode = "action_assistant" ->
            IF generated THEN "action_assistant" ELSE "none"
      [] chosen_mode = "mixed" -> "mixed"
      [] OTHER -> "clarification"

\* The messages of a conversation: wo-hen-lei (emotion), ren-wu (one task
\* keyword), qing-dan (task keyword and pattern), ying-gai (decision),
\* bang-wo-zuo-dian-shen-me-huan-jie-yi-xia (a request for action, ten
\* characters), bang-wo-zuo-dian-shen-me, bang-wo-ji-hua, lei-le
ChatTexts ==
    {<<"wo", "hen", "lei">>, <<"ren", "wu">>, <<"qing1", "dan">>, <<"ying", "gai">>,
     <<"bang", "wo", "zuo", "dian", "shen", "me", "huan", "jie", "yi", "xia">>,
     <<"bang", "wo", "zuo", "dian", "shen", "me">>,
     <<"bang", "wo", "ji", "hua">>, <<"lei", "le">>}

\* LifeOSRealAssistant.chat.  The state is read from conversation_states, which
\* nothing writes; route changes the state object it was given or made, and
\* chat drops it.
Chat(user_id, user_input) ==
    /\ Len(chat_log) < MaxChats
    /\ LET state == StateOf(user_id)
           routed == route(user_input, state)
       IN  \E generated \in BOOLEAN :
              chat_log' = Append(chat_log,
                                 [user_id |-> user_id,
                                  user_input |-> user_input,
                                  state |-> state,
                                  chosen_mode |-> routed.chosen_mode,
                                  intent |-> routed.classification.intent,
                                  mode |-> ResponseMode(routed.chosen_mode, generated)])
    /\ UNCHANGED <<conversation_states, na_result, na_prefs, na_pc, graph_db, graph>>
    /\ UNCHANGED <<convVars, memVars, flowVars, wfVars, toolVars>>

InitChat ==
    /\ conversation_states = <<>>
    /\ chat_log = <<>>
    /\ ConvUnused /\ MemUnused /\ FlowUnused /\ WfUnused /\ ToolUnused
    /\ NextActionUnused /\ GraphUnused

NextChat == \E u \in Users, t \in ChatTexts : Chat(u, t)

SpecChat == InitChat /\ [][NextChat]_vars

-----------------------------------------------------------------------------
(* app/graph.py: LifeOSGraph; app/nodes: the router and the five capability
   nodes; app/database.py: the tables they use *)

\* calls of LifeOSGraph.run, at most
MaxGraphRuns == 2

\* get_chat_history(user_id, session_id, limit=10)
HistoryLimit == 10

\* users.id
GraphUserIds == {1, 2}

\* The messages users send: words of the router's keyword lists (xiguan habit,
\* daka check-in, yinggai should, mubiao goal, jianbao brief, fansi reflect), of
\* habit_node's lists (daka, meizuo), a capital, and the empty message
GraphTexts ==
    {<<"xiguan">>, <<"daka">>, <<"xiguan", "meizuo">>, <<"yinggai">>, <<"mubiao">>,
     <<"mubiao", "xiguan">>, <<"jianbao">>, <<"fansi">>, <<"HI">>, <<>>}

\* What llm.chat may do: return text, return the empty string, return a value
\* that is no string (None), or raise
LLMReplies == {"text", "empty", "none", "raise"}

\* The string llm.chat returned
ReplyContent(reply) == IF reply = "text" THEN <<"llm_text">> ELSE <<>>

ChatMessage(role, content) == [role |-> role, content |-> content]

\* A row of table chat_history
ChatRow(user_id, role, content) == [user_id |-> user_id, role |-> role, content |-> content]

\* Database.get_chat_history(user_id, None, limit): the user's newest rows, in
\* time order
get_chat_history(rows, user_id, limit) ==
    LET mine == SelectSeq(rows, LAMBDA r : r.user_id = user_id)
    IN  SubSeq(mine, Max2(1, Len(mine) - limit + 1), Len(mine))

\* router_node: the first keyword list that matches the last message decides
router_node(messages) ==
    IF messages = <<>> THEN [intent |-> "chat", next_node |-> "chat"]
    ELSE LET last_message == Lower(messages[Len(messages)].content)
         IN  IF ContainsAny(last_message, {"xiguan", "daka", "paobu", "duanlian", "jianchi"})
             THEN [intent |-> "habit_tracking", next_node |-> "habit"]
             ELSE IF ContainsAny(last_message,
                                 {"juece", "xuanze", "yaobuyao", "yinggai", "haishi"})
             THEN [intent |-> "decision_support", next_node |-> "coach"]
             ELSE IF ContainsAny(last_message, {"jianbao", "jinri", "anpai"})
             THEN [intent |-> "daily_brief", next_node |-> "plan"]
             ELSE IF ContainsAny(last_message, {"fansi", "huigu", "xinqing"})
             THEN [intent |-> "reflection", next_node |-> "reflect"]
             ELSE IF ContainsAny(last_message, {"mubiao", "xiangxue", "xiangzuo", "dasuan"})
             THEN [intent |-> "goal_breakdown", next_node |-> "coach"]
             ELSE [intent |-> "chat", next_node |-> "chat"]

\* The nodes of the conditional edge out of router
GraphNodes == {"habit", "plan", "reflect", "coach", "chat"}

\* No run yet
GraphIdle ==
    [pc |-> "idle", runs |-> 0, user_id |-> 0, messages |-> <<>>, intent |-> "",
     response |-> <<>>, error |-> FALSE]

\* LifeOSGraph.run up to the invoke: the history is loaded, the user's message
\* is appended to it and saved
GraphRun(user_id, message) ==
    /\ graph.pc \in {"idle", "returned"}
    /\ graph.runs < MaxGraphRuns
    /\ LET history == get_chat_history(graph_db.chat_history, user_id, HistoryLimit)
           messages == [i \in 1..Len(history) |->
                           ChatMessage(history[i].role, history[i].content)]
                           \o <<ChatMessage("user", message)>>
       IN  /\ graph_db' = [graph_db EXCEPT
                              !.chat_history = Append(@, ChatRow(user_id, "user", message))]
           /\ graph' = [GraphIdle EXCEPT !.pc = "router", !.runs = graph.runs + 1,
                                         !.user_id = user_id, !.messages = messages]
    /\ UNCHANGED <<na_result, na_prefs, na_pc, conversation_states, chat_log>>
    /\ UNCHANGED <<convVars, memVars, flowVars, wfVars, toolVars>>

\* Node router and its conditional edge
RouterNode ==
    /\ graph.pc = "router"
    /\ LET r == router_node(graph.messages)
       IN  graph' = [graph EXCEPT !.intent = r.intent, !.pc = r.next_node]
    /\ UNCHANGED <<graph_db, na_result, na_prefs, na_pc, conversation_states, chat_log>>
    /\ UNCHANGED <<convVars, memVars, flowVars, wfVars, toolVars>>

\* run's except block: the apology, with the error
GraphRaise(db) ==
    /\ graph' = [graph EXCEPT !.pc = "returned", !.intent = "",
                              !.response = <<"problem_apology">>, !.error = TRUE]
    /\ graph_db' = db

\* The node appended its assistant message and returned; END follows
GraphAnswer(db, content) ==
    /\ graph' = [graph EXCEPT !.pc = "END",
                              !.messages = Append(@, ChatMessage("assistant", content))]
    /\ graph_db' = db

\* A capability node whose body is: llm.chat, then the writes `saved` of which
\* the first `early` do not need the reply to be a string, then ChatMessage(
\* content=response), which rejects a reply that is no string
AnswerWith(reply, saved, early) ==
    CASE reply = "raise" -> GraphRaise(graph_db)
      [] reply = "none"  -> GraphRaise(early)
      [] OTHER           -> GraphAnswer(saved, ReplyContent(reply))

\* The last message of the state, which is the user's
UserMessage == graph.messages[Len(graph.messages)].content

\* chat_node
ChatNode ==
    /\ graph.pc = "chat"
    /\ \E reply \in LLMReplies : AnswerWith(reply, graph_db, graph_db)
    /\ UNCHANGED <<na_result, na_prefs, na_pc, conversation_states, chat_log>>
    /\ UNCHANGED <<convVars, memVars, flowVars, wfVars, toolVars>>

\* habit_node: without habits a fixed answer; otherwise the generator's, and a
\* habit record when the message reports one done or missed
HabitNode ==
    /\ graph.pc = "habit"
    /\ IF graph.user_id \notin graph_db.habits
       THEN GraphAnswer(graph_db, <<"no_habits_yet">>)
       ELSE LET status == IF ContainsAny(UserMessage, {"wanchengle", "zuole", "paole", "daka"})
                          THEN "completed"
                          ELSE IF ContainsAny(UserMessage,
                                              {"meizuo", "fangqi", "wangle", "meishijian"})
                          THEN "missed" ELSE ""
                saved == IF status = "" THEN graph_db
                         ELSE [graph_db EXCEPT
                                  !.habit_records =
                                      Append(@, [user_id |-> graph.user_id,
                                                 status |-> status])]
            IN  \E reply \in LLMReplies : AnswerWith(reply, saved, graph_db)
    /\ UNCHANGED <<na_result, na_prefs, na_pc, conversation_states, chat_log>>
    /\ UNCHANGED <<convVars, memVars, flowVars, wfVars, toolVars>>

\* plan_node: today's brief when there is one, otherwise a new one is computed
\* from the habit data and saved; no generator is called
PlanNode ==
    /\ graph.pc = "plan"
    /\ IF graph.user_id \in graph_db.daily_briefs
       THEN GraphAnswer(graph_db, <<"daily_brief", "saved">>)
       ELSE GraphAnswer([graph_db EXCEPT !.daily_briefs = @ \cup {graph.user_id}],
                        <<"daily_brief", "new">>)
    /\ UNCHANGED <<na_result, na_prefs, na_pc, conversation_states, chat_log>>
    /\ UNCHANGED <<convVars, memVars, flowVars, wfVars, toolVars>>

\* reflect_node: the reflection is saved with the generator's reply before the
\* assistant message is built
ReflectNode ==
    /\ graph.pc = "reflect"
    /\ \E reply \in LLMReplies :
          LET saved == [graph_db EXCEPT
                           !.reflections = Append(@, [user_id |-> graph.user_id,
                                                     reply |-> reply])]
          IN  AnswerWith(reply, saved, saved)
    /\ UNCHANGED <<na_result, na_prefs, na_pc, conversation_states, chat_log>>
    /\ UNCHANGED <<convVars, memVars, flowVars, wfVars, toolVars>>

\* coach_node: goal breakdown (the goal is created before the assistant
\* message is built) or decision support (response[:200] raises for a reply
\* that is no string, before the decision is saved)
CoachNode ==
    /\ graph.pc = "coach"
    /\ \E reply \in LLMReplies :
          IF ContainsAny(UserMessage, {"xiangxue", "xiangzuo", "mubiao", "jihuaxue"})
          THEN LET saved == [graph_db EXCEPT !.goals = Append(@, graph.user_id)]
               IN  AnswerWith(reply, saved, saved)
          ELSE LET saved == [graph_db EXCEPT !.decisions = Append(@, graph.user_id)]
               IN  AnswerWith(reply, saved, graph_db)
    /\ UNCHANGED <<na_result, na_prefs, na_pc, conversation_states, chat_log>>
    /\ UNCHANGED <<convVars, memVars, flowVars, wfVars, toolVars>>

\* LifeOSGraph.run after the invoke: the last assistant message is saved and
\* its content returned as the response
GraphReturn ==
    /\ graph.pc = "END"
    /\ LET ai_messages == SelectSeq(graph.messages, LAMBDA m : m.role = "assistant")
       IN  IF ai_messages # <<>>
           THEN LET ai_response == ai_messages[Len(ai_messages)]
                IN  /\ graph_db' = [graph_db EXCEPT
                                       !.chat_history =
                                           Append(@, ChatRow(graph.user_id, "assistant",
                                                             ai_response.content))]
                    /\ graph' = [graph EXCEPT !.pc = "returned",
                                              !.response = ai_response.content]
           ELSE /\ graph_db' = graph_db
                /\ graph' = [graph EXCEPT !.pc = "returned", !.intent = "",
                                          !.response = <<"confused_apology">>]
    /\ UNCHANGED <<na_result, na_prefs, na_pc, conversation_states, chat_log>>
    /\ UNCHANGED <<convVars, memVars, flowVars, wfVars, toolVars>>

InitGraph ==
    /\ \E habits \in SUBSET GraphUserIds :
          graph_db = [chat_history |-> <<>>, habits |-> habits, habit_records |-> <<>>,
                      daily_briefs |-> {}, reflections |-> <<>>, decisions |-> <<>>,
                      goals |-> <<>>]
    /\ graph = GraphIdle
    /\ ConvUnused /\ MemUnused /\ FlowUnused /\ WfUnused /\ ToolUnused
    /\ NextActionUnused /\ ChatUnused

NextGraph ==
    \/ \E u \in GraphUserIds, t \in GraphTexts : GraphRun(u, t)
    \/ RouterNode
    \/ ChatNode
    \/ HabitNode
    \/ PlanNode
    \/ ReflectNode
    \/ CoachNode
    \/ GraphReturn

SpecGraph == InitGraph /\ [][NextGraph]_vars

-----------------------------------------------------------------------------
(* Properties of run under a failing generator *)

\* What run returns once the invoke is over
Returned(c) == req[c].pc \in {"add_turn", "add_turn_insert", "done"} /\ req[c].op = "run"

\* C1: with a generator whose every call raises, run returns a non-empty
\* final_output whatever branch the intent selects; the run always returns.
C1_FallbackOutput ==
    \A c \in Callers :
        (llm = "raises" /\ Returned(c)) => req[c].state.final_output # <<>>

\* C1 case: a run under the raising generator went through emotion_support
\* and returned
C1_Witness ==
    /\ llm = "raises"
    /\ req[1].pc = "done" /\ req[1].op = "run"
    /\ req[1].path = <<"intent_recognition", "emotion_support", "output_generation">>
    /\ req[1].state.final_output # <<>>

-----------------------------------------------------------------------------
(* Properties of run when the invoke raises, and of the intent node *)

\* result.get("errors", []) on what run returns
Errors(result) == IF "errors" \in DOMAIN result THEN result.errors ELSE <<>>

\* Did the invoke of c's run raise?  An invoke that returns has run
\* output_generation last.
InvokeRaised(c) ==
    Returned(c) /\ req[c].path[Len(req[c].path)] # "output_generation"

\* C11 (as the specification states it): when an exception escapes a node or
\* the routing step, what run returns has a description of it in its errors
\* list and the apology as final_output
C11_ExceptionRecorded ==
    \A c \in Callers :
        InvokeRaised(c) =>
            /\ Errors(req[c].state) # <<>>
            /\ req[c].state.final_output = <<"apology">>

\* C12 (as the specification states it): when the intent written by
\* intent_recognition is no key of the routing table, the run goes to a default
\* node and completes through output_generation; no routing error is raised
C12_DefaultRoute ==
    \A c \in Callers :
        (Returned(c) /\ req[c].key \notin DOMAIN RouteTable) =>
            /\ ~InvokeRaised(c)
            /\ req[c].state.final_output # <<"apology">>

\* C13 (as the specification states it): when the generator's answer to the
\* intent request is no JSON object, or the call raises, the intent and the
\* confidence written are those written when no generator is configured
C13_FallbackUntouched ==
    \A c \in Callers :
        req[c].reply_kind \in {"text", "raise"} =>
            LET rule == _intent_recognition_node(req[c].initial_state, [kind |-> "none"])
            IN  /\ req[c].state.intent = rule.intent
                /\ req[c].state.confidence = rule.confidence

\* How often does entry e occur in the list steps?
Occurrences(steps, e) == Cardinality({i \in 1..Len(steps) : steps[i] = e})

\* C21 (as the specification states it): at the end of a run whose invoke
\* returned, processing_steps holds every entry the executed nodes emitted
\* exactly once; each node emits entries of its own, so no entry occurs twice
C21_StepsOnce ==
    \A c \in Callers :
        (Returned(c) /\ ~InvokeRaised(c)) =>
            \A e \in Range(req[c].state.processing_steps) :
                Occurrences(req[c].state.processing_steps, e) = 1

\* C22 (as the specification states it): the confidence in the state run
\* returns, and the one stored with the turn, is a number in [0,1] (0..100
\* hundredths) whatever the generator answered to the intent request
C22_ConfidenceInRange ==
    /\ \A c \in Callers : Returned(c) => req[c].state.confidence \in 0..100
    /\ \A row \in conversations : row.intent_confidence \in 0..100

-----------------------------------------------------------------------------
(* Properties of LifeOSWorkflow's routing *)

\* C14 (as the specification states it): a run whose classified intent is
\* unknown goes from intent_recognition to a clarification step, never to
\* emotion_support or to another capability node
C14_UnknownToClarification ==
    (wf_path # <<>> /\ wf_pc # "raised" /\ wf.intent = "unknown") =>
        /\ "emotion_support" \notin Range(wf_path) \cup {wf_pc}
        /\ "clarification" \in Range(wf_path) \cup {wf_pc}

\* C20 (as the specification states it): a run that completes has executed
\* output_generation exactly once, as its last node before END
C20_ThroughOutput ==
    wf_pc = "END" =>
        /\ wf_path[Len(wf_path)] = "output_generation"
        /\ Cardinality({i \in 1..Len(wf_path) : wf_path[i] = "output_generation"}) = 1

-----------------------------------------------------------------------------
(* Properties of run when the database is unavailable *)

\* C15 (as the specification states it): when every call run makes to the
\* ConversationManager fails, run still returns a result whose final_output is
\* not empty, and no exception reaches the caller
C15_BestEffort ==
    \A c \in Callers :
        req[c].op = "run" =>
            /\ req[c].pc # "raised"
            /\ req[c].pc = "done" => req[c].state.final_output # <<>>

-----------------------------------------------------------------------------
(* Properties of the conversation store *)

\* The add_turn calls completed on a session, in order of completion
Completed(session_id) == SelectSeq(log, LAMBDA e : e.session_id = session_id)

LoggedSessions == {log[i].session_id : i \in 1..Len(log)}

\* C2: add_turn calls made one after the other on a fresh session return
\* 1, 2, 3, ... whatever is stored for other sessions.
C2_SequentialNumbers ==
    \A s \in LoggedSessions \ overlap :
        \A k \in 1..Len(Completed(s)) :
            Completed(s)[k].ok /\ Completed(s)[k].turn_number = k

\* C2 case: a second call on a session returned 2 after a call on another
\* session had stored its turn 1 in between
C2_Witness ==
    /\ overlap = {}
    /\ Len(log) = 3
    /\ log[1].session_id = log[3].session_id
    /\ log[2].session_id # log[1].session_id
    /\ log[3].turn_number = 2

\* C3 (as the specification states it): every add_turn call completes without
\* an error, also when two calls on one session overlap.
C3_NoCallFails == \A i \in 1..Len(log) : log[i].ok

\* C4: no two stored turns of a session share a turn_number.
C4_UniqueTurnNumbers ==
    \A t1, t2 \in conversations :
        (t1.session_id = t2.session_id /\ t1.turn_number = t2.turn_number) => t1 = t2

\* C4 case: two calls on one session overlapped, read the same number, and the
\* second INSERT has been attempted
C4_Witness ==
    \E i, j \in 1..Len(log) :
        /\ i < j
        /\ log[i].session_id = log[j].session_id
        /\ log[i].turn_number = log[j].turn_number
        /\ log[i].session_id \in overlap

\* C5 (as the specification states it): of two runs on one session the one
\* called first has the smaller turn_number and both turns are stored
C5_SubmissionOrder ==
    \A i, j \in 1..Len(log) :
        (log[i].session_id = log[j].session_id /\ log[i].seq < log[j].seq)
            => (log[i].ok /\ log[j].ok /\ log[i].turn_number < log[j].turn_number)

\* Is h the answer to get_conversation_history(session_id, last_n_turns) on conv?
IsLastTurns(h, conv, session_id, last_n_turns) ==
    LET rows == SessionTurns(conv, session_id)
        shown == {r \in rows : \E i \in 1..Len(h) : h[i] = HistoryEntry(r)}
    IN  /\ Len(h) = Min2(last_n_turns, Cardinality(rows))
        /\ Cardinality(shown) = Len(h)
        /\ \A i, j \in 1..Len(h) : i < j => h[i].turn_number < h[j].turn_number
        /\ \A r \in rows \ shown : \A q \in shown : r.turn_number < q.turn_number

\* C6: get_conversation_history(session, last_n) returns the min(last_n, stored)
\* turns of the session with the largest turn numbers, oldest first.
C6_LastTurns ==
    [][\A c \in Callers :
          (req'[c] # req[c] /\ req'[c].op = "get_conversation_history")
              => IsLastTurns(req'[c].history, conversations,
                             req'[c].session_id, req'[c].last_n_turns)]_vars

\* C6 case: a call with last_n = 2 on a session holding two turns returned
\* both
C6_Witness ==
    \E c \in Callers :
        /\ req[c].op = "get_conversation_history"
        /\ req[c].last_n_turns = 2
        /\ Len(req[c].history) = 2

\* C17: the INSERT of the turn and the INSERT OR REPLACE of the session row are
\* committed together, and in every committed state a session's total_turns is
\* the number of turns stored for it; every session that has turns has a row.
C17_TotalTurns ==
    /\ \A r \in sessions :
          r.total_turns = Cardinality(SessionTurns(conversations, r.session_id))
    /\ \A t \in conversations : \E r \in sessions : r.session_id = t.session_id

\* C17 case: a session holds two turns and counts two, after an overlapping
\* call on it had its INSERT rejected
C17_Witness ==
    \E r \in sessions :
        /\ r.total_turns = 2
        /\ Cardinality(SessionTurns(conversations, r.session_id)) = 2
        /\ \E i \in 1..Len(log) : log[i].session_id = r.session_id /\ ~log[i].ok

\* C18 (as the specification states it): a step that appends a turn to an
\* existing session leaves the session's user_id and started_at, and every
\* earlier turn, as they were
C18_OnlyCountersChange ==
    [][/\ conversations \subseteq conversations'
       /\ \A r \in sessions : \A q \in sessions' :
             (q.session_id = r.session_id /\ conversations' # conversations)
                 => (q.user_id = r.user_id /\ q.started_at = r.started_at)]_vars

\* C19: create_session called with the id of an existing session returns that
\* id and changes neither table, however often it is repeated.
C19_CreateExistingNoOp ==
    [][\A c \in Callers :
          (/\ req'[c] # req[c]
           /\ req'[c].op = "create_session"
           /\ req'[c].given # NoSession
           /\ \E r \in sessions : r.session_id = req'[c].given)
              => /\ req'[c].session_id = req'[c].given
                 /\ req'[c].error = ""
                 /\ sessions' = sessions
                 /\ conversations' = conversations]_vars

\* C19 case: create_session was called by another user, a second later, with
\* the id of a session that holds a turn
C19_Witness ==
    /\ req[1].op = "create_session"
    /\ req[1].given # NoSession
    /\ \E r \in sessions :
          /\ r.session_id = req[1].given
          /\ r.user_id # req[1].user_id
          /\ r.total_turns = 1
          /\ r.started_at < now

\* Calls that had no session_id and were answered with a session
GotNewSession(c) ==
    /\ req[c].op \in {"run", "create_session"}
    /\ req[c].given = NoSession
    /\ req[c].session_id # NoSession

\* C29 (as the specification states it): two calls of run without a
\* session_id never receive the same session, also for one user within one
\* second
C29_FreshSession ==
    \A c, d \in Callers :
        (c # d /\ GotNewSession(c) /\ GotNewSession(d))
            => req[c].session_id # req[d].session_id

\* C30 (as the specification states it): the turns of a session are all of one
\* user, and a run with a session_id loads into its state only turns that its
\* own user wrote
C30_SingleUser ==
    /\ \A t1, t2 \in conversations :
          t1.session_id = t2.session_id => t1.user_id = t2.user_id
    /\ \A c \in Callers :
          (req[c].op = "run" /\ req[c].given # NoSession)
              => \A i \in 1..Len(req[c].initial_state.conversation_history) :
                    \A row \in SessionTurns(conversations, req[c].given) :
                        HistoryEntry(row) = req[c].initial_state.conversation_history[i]
                            => row.user_id = req[c].user_id

-----------------------------------------------------------------------------
(* Properties of the memory store *)

\* C7 (as the specification states it): after two remember calls in a row for
\* one user and key the store holds one entry for them, and a recall
\* that follows returns the second value
C7_LastWriteWins ==
    \A i \in 1..(Len(mem_log) - 1) :
        LET first == mem_log[i]
            second == mem_log[i + 1]
        IN  (/\ first.op = "remember" /\ second.op = "remember"
             /\ first.user_id = second.user_id /\ first.key = second.key)
            => /\ Len(mem_log) = i + 1 =>
                    Cardinality(get_memory(memories, second.user_id, second.key)) = 1
               /\ (/\ Len(mem_log) >= i + 2
                   /\ mem_log[i + 2].op = "recall"
                   /\ mem_log[i + 2].user_id = second.user_id
                   /\ mem_log[i + 2].key = second.key)
                  => mem_log[i + 2].result = Some(second.value)

\* C16 (as the specification states it): the profile get_user_profile returns
\* is the fold of the user's entries that have not expired, also while expired
\* entries are still stored
C16_ProfileSkipsExpired ==
    [][(/\ Len(mem_log') = Len(mem_log) + 1
        /\ mem_log'[Len(mem_log')].op = "get_user_profile")
       => LET call == mem_log'[Len(mem_log')]
          IN  \E mems \in get_memories(memories, call.user_id) :
                 call.result =
                     Some(from_memories(call.user_id,
                                        SelectSeq(mems, LAMBDA m : ~is_expired(m, today))))]_vars

-----------------------------------------------------------------------------
(* Properties of the intent classifier *)

\* Does the message as given hold one of the keywords or match one of the patterns?
HasSignal(input, keywords, patterns) ==
    \/ \E w \in keywords : Contains(input, w)
    \/ \E p \in patterns : Search(p, input)

\* C8: a message with at least one emotion signal and at least one task signal
\* is classified mixed with confidence 0.85, whatever else it holds.
C8_MixedWins ==
    (/\ classification # None
     /\ HasSignal(classify_input, EMOTION_KEYWORDS, EMOTION_PATTERNS)
     /\ HasSignal(classify_input, TASK_KEYWORDS, TASK_PATTERNS))
    => (classification.intent = "mixed" /\ classification.confidence = 85)

\* C8 case: a classified message with two emotion signals, one task signal and
\* a decision keyword
C8_Witness ==
    /\ classification # None
    /\ classification.intent = "mixed"
    /\ Contains(classify_input, <<"shou", "bu", "liao">>)
    /\ Contains(classify_input, <<"ren", "wu">>)
    /\ Contains(classify_input, <<"ying", "gai">>)

\* len(signals) for one intent: the keywords and patterns of the tables that the
\* lowered, stripped input matches
Score(input, keywords, patterns) ==
    Cardinality(Signals(Strip(Lower(input)), keywords, patterns))

\* C23 (as the specification states it): a message that does not hold both an
\* emotion and a task signal, and holds some signal, is classified as the
\* intent among emotion, task and decision whose signal count is highest
C23_HighestCount ==
    LET emotion_score == Score(classify_input, EMOTION_KEYWORDS, EMOTION_PATTERNS)
        task_score == Score(classify_input, TASK_KEYWORDS, TASK_PATTERNS)
        decision_score == Score(classify_input, DECISION_KEYWORDS, {})
        top == Max({emotion_score, task_score, decision_score})
    IN  (/\ classification # None
         /\ ~(emotion_score > 0 /\ task_score > 0)
         /\ top > 0)
        => \/ classification.intent = "emotion" /\ emotion_score = top
           \/ classification.intent = "task" /\ task_score = top
           \/ classification.intent = "decision" /\ decision_score = top

-----------------------------------------------------------------------------
(* Properties of the task pipeline *)

\* The three buckets as the rule states them
RuleHigh(t) == (t.importance >= 7 /\ t.urgency >= 7) \/ t.urgency >= 9
RuleMedium(t) == ~RuleHigh(t) /\ ((t.importance >= 6 /\ t.urgency >= 5) \/ t.importance >= 8)
RuleLow(t) == ~RuleHigh(t) /\ ~RuleMedium(t)

Sorted == wf_pc \in {"action_decomposition", "personalization"}

\* C9: after prioritisation every analyzed task is in exactly the bucket the
\* rule gives it (high, else medium, else low), and every task listed as
\* deferrable has importance < 7 and urgency < 7.
C9_Buckets ==
    Sorted =>
        /\ wf.high_priority = SelectSeq(wf.analyzed_tasks, RuleHigh)
        /\ wf.medium_priority = SelectSeq(wf.analyzed_tasks, RuleMedium)
        /\ wf.low_priority = SelectSeq(wf.analyzed_tasks, RuleLow)
        /\ \A i \in 1..Len(wf.deferrable) :
              \A j \in 1..Len(wf.analyzed_tasks) :
                  wf.analyzed_tasks[j].description = wf.deferrable[i]
                      => (/\ wf.analyzed_tasks[j].importance < 7
                          /\ wf.analyzed_tasks[j].urgency < 7)

\* C9 case: two tasks sorted, one high by urgency alone and deferrable by
\* neither test, the other low and deferrable
C9_Witness ==
    /\ Sorted
    /\ Len(wf.high_priority) = 1
    /\ wf.high_priority[1].importance = 5
    /\ Len(wf.low_priority) = 1
    /\ wf.deferrable = <<wf.low_priority[1].description>>

-----------------------------------------------------------------------------
(* Properties of the action decomposition *)

RECURSIVE SumMinutes(_)
SumMinutes(steps) ==
    IF steps = <<>> THEN 0 ELSE Head(steps).estimated_minutes + SumMinutes(Tail(steps))

\* C10 (as the specification states it): for total_minutes >= 5 the first step
\* takes 5 minutes, the last step is the review, and the durations add up to
\* total_minutes less what the integer division among the core steps loses
C10_DurationsAddUp ==
    (decomposition # None /\ decompose_args.total_minutes >= 5) =>
        LET steps == decomposition.steps
            cores == SelectSeq(steps, LAMBDA st : st.type = "core")
            lost == decompose_args.total_minutes - SumMinutes(steps)
        IN  /\ steps[1].estimated_minutes = 5
            /\ steps[Len(steps)].type = "review"
            /\ lost >= 0
            /\ lost < Len(cores)

\* C24 (as the specification states it): for total_minutes >= 5 no step after
\* the first, core or review, has fewer estimated minutes than the first step
C24_FirstCheapest ==
    (decomposition # None /\ decompose_args.total_minutes >= 5) =>
        LET steps == decomposition.steps
        IN  \A i \in 2..Len(steps) :
                steps[i].estimated_minutes >= steps[1].estimated_minutes

-----------------------------------------------------------------------------
(* Properties of the memory maintenance *)

\* Is the step a sweep: a call of cleanup_expired or of archive_unused?
SweepStep ==
    /\ Len(mem_log') = Len(mem_log) + 1
    /\ mem_log'[Len(mem_log')].op \in {"cleanup_expired", "archive_unused"}

\* C26 (as the specification states it): after a sweep the entries stored are
\* those stored before it that are neither expired (age above ttl_days) nor
\* stale (unused for more than the archive threshold)
C26_SweepRemoves ==
    [][SweepStep =>
          memories' = {m \in memories :
                          /\ ~is_expired(m, today)
                          /\ ~should_archive(m, today, UnusedDays)}]_vars

-----------------------------------------------------------------------------
(* Properties of the conversation's mode *)

\* The chat calls of one user, in order
ChatsOf(user_id) == SelectSeq(chat_log, LAMBDA t : t.user_id = user_id)

\* C27 (as the specification states it): when a user's first turn was answered
\* in emotion-support mode and the second message holds an emotion-to-action
\* trigger, the second turn is handled in action-assistant mode
C27_SwitchToAction ==
    \A u \in Users :
        LET turns == ChatsOf(u)
        IN  (/\ Len(turns) >= 2
             /\ turns[1].mode = "emotion_support"
             /\ should_switch_to_action(turns[2].user_input, "emotion_support"))
            => turns[2].chosen_mode = "action_assistant"

-----------------------------------------------------------------------------
(* Properties of LifeOSGraph.run *)

\* C28 (as the specification states it): whatever node the router selects and
\* whatever the generator returns or raises in it, the response run returns is
\* a non-empty string
C28_ResponseNotEmpty ==
    graph.pc = "returned" => graph.response # <<>>

-----------------------------------------------------------------------------
(* Properties of the preference adjustment *)

\* C25 (as the specification states it): when prefers_short_tasks is true,
\* the action recommended after the adjustment has the smallest est_minutes of
\* all candidate actions, whatever that minimum and the index given
C25_ShortestRecommended ==
    (na_pc = "returned" /\ na_prefs.prefers_short_tasks) =>
        LET actions == na_result.candidate_actions
            recommended == actions[na_result.recommended_action_index + 1]
        IN  \A j \in 1..Len(actions) :
                recommended.est_minutes <= actions[j].est_minutes

====
